---- MODULE Spec2Model ----
(***************************************************************************)
(* A model of yaboli's Connection (src/yaboli/connection.py): the          *)
(* reconnecting request/reply engine on top of one websocket.              *)
(*                                                                         *)
(* asyncio runs one task at a time and switches tasks only at an await, so *)
(* every action below is the code of one task from one await to the next.  *)
(* The tasks are: the callers of the public coroutines connect(),          *)
(* disconnect(), reconnect() and send(); the background task _run(); the   *)
(* watchdog timer _disconnect_in() and the _disconnect() tasks it spawns.   *)
(* The websocket library and the server are the environment: a transport   *)
(* opens or fails to open, delivers frames while it is open, and closes.   *)
(***************************************************************************)
EXTENDS Integers, Sequences, FiniteSets, TLC

\* ------------------------------------------------------------- bounds
NCallers == 2      \* tasks of the application that call the public coroutines
MaxSends == 2      \* packet ids handed out by send()
MaxWs    == 2      \* transports successfully opened by websockets.connect
MaxCalls == 4      \* calls of the public coroutines
MaxD     == 1      \* _disconnect() tasks spawned by watchdogs and not yet finished
MaxInbox == 2      \* frames waiting in the transport's queue
NTasks   == 3      \* tasks running a coroutine of the Room that are suspended at an await
MaxHq    == 2      \* callback tasks made by Events.fire that have not yet started
MaxCommands == 1   \* commands of the Room in progress

Callers == 1..NCallers
Ids     == 0..(MaxSends - 1)
WsIds   == 1..MaxWs
DSlots  == 1..MaxD
RTasks  == 1..NTasks

\* ------------------------------------------------------------- constants
NOT_RUNNING   == "not running"
CONNECTING    == "connecting"
RUNNING       == "running"
RECONNECTING  == "reconnecting"
DISCONNECTING == "disconnecting"
States == {NOT_RUNNING, CONNECTING, RUNNING, RECONNECTING, DISCONNECTING}

None    == 0        \* self._ws is None
NoTable == {-1}     \* self._awaiting_replies is None
NoUsers == <<>>     \* Room._users is None

VARIABLES
    state,             \* self._state
    ws,                \* self._ws: None or the id of a transport
    awaiting_replies,  \* self._awaiting_replies: NoTable or the set of ids in the dict
    ping_check,        \* self._ping_check: "none", "armed" (sleeping) or "finished"
    event_loop,        \* self._event_loop is not None
    packet_id,         \* self._packet_id
    fut,               \* the Future made for each id: "none", "pending", "result", "exception"
    dbl,               \* dbl[i]: set_result/set_exception was called on the already done future i
    wsOpen,            \* the transport is open (frames flow, send works)
    closeReq,          \* close() has been called on the transport and has not returned
    discCloses,        \* close() calls made by disconnect() on the transport
    nextWs,            \* transports opened so far
    wire,              \* wire[i]: the open transport whose server still owes the reply to i, or None
    leaked,            \* armed watchdog timers that _ping_check no longer refers to
    run,               \* the _run() task: [pc, w, exc]
    dtask,             \* the _disconnect() tasks spawned by _disconnect_in: [pc, w]
    call,              \* the callers: [op, pc, res, arg, aw]
    ncalls,            \* calls of the public coroutines made so far
    fired,             \* the events passed to Events.fire by the latest step
    inbox,             \* the frames the transport has received and not yet handed to _run()
    seq,               \* seq[c]: the number of the call that caller c is in, in call order, or 0
    hq,                \* the tasks Events.fire has made for callbacks, not yet started, oldest first
    hello_received,    \* Room._hello_received
    snapshot_received, \* Room._snapshot_received
    connected,         \* Room._connected.is_set()
    connected_successfully,  \* Room._connected_successfully
    password,          \* Room._password: "none" or the password
    target_nick,       \* Room._target_nick
    session_nick,      \* Room._session.nick, "none" when Room._session is None
    users,             \* Room._users: NoUsers or the listing
    rfired,            \* the events passed to fire of the Room's Events by the latest step
    client,            \* the Client of the Room: _rooms, _stop and where its coroutines are
    rtask              \* the tasks running a coroutine of the Room: [kind, pc, res, c]

\* The Connection's own variables.
cvars == <<state, ws, awaiting_replies, ping_check, event_loop, packet_id, fut, dbl,
           wsOpen, closeReq, discCloses, nextWs, wire, leaked, run, dtask, call, ncalls, fired>>

\* The Room's fields.
room == <<hello_received, snapshot_received, connected, connected_successfully,
          password, target_nick, session_nick, users, rfired, client>>

vars == <<state, ws, awaiting_replies, ping_check, event_loop, packet_id, fut, dbl,
          wsOpen, closeReq, discCloses, nextWs, wire, leaked, run, dtask, call, ncalls, fired,
          inbox, seq, hq, hello_received, snapshot_received, connected, connected_successfully,
          password, target_nick, session_nick, users, rfired, client, rtask>>

conn    == <<ws, awaiting_replies, ping_check>>
wsvars  == <<wsOpen, closeReq, discCloses, nextWs>>

IdleCall == [op |-> "none", pc |-> "done", res |-> "none", arg |-> 0, aw |-> FALSE]
NoRun    == [pc |-> "none", w |-> None, exc |-> "none"]
NoD      == [pc |-> "free", w |-> None]
IdleTask == [kind |-> "none", pc |-> "done", res |-> "none", c |-> 0]

\* The password a Room is made with: none, or one that the server may accept or not.
Passwords == {"none", "pw"}

\* The nicks the server confirms: it may rewrite the nick it is asked for. The Room
\* is made with the nick "a", and the application asks for Requested with nick().
Nicks == {"a", "b"}
Requested == "b"

\* The command operations of the Room (room.py, lines 425-510 and 550-562); nick
\* is the kind of _nick when _set_nick_if_necessary calls it.
Commands == {"send_cmd", "nick_cmd", "get_cmd", "log_cmd", "who_cmd", "pm_cmd"}

\* The sessions of other clients that the server reports, and the Room's own; the
\* ids and the eras of the servers they are on.
SessionIds == {"s1", "s2"}
OwnId      == "own"
Servers    == {1, 2}

\* What a listing holds for a session id that has no entry.
Absent == [nick |-> "", server_id |-> 0, server_era |-> 0]

\* LiveSessionListing: a mapping from session id to session, one entry for every
\* id that is listed.
EmptyListing == [i \in SessionIds \cup {OwnId} |-> Absent]

\* LiveSessionListing.with_join, with_part and with_nick: copies of the listing
\* with the session s inserted under its id, with the entry of the id removed,
\* with the nick of the id's session replaced.
with_join(l, i, s) == [l EXCEPT ![i] = s]
with_part(l, i)    == [l EXCEPT ![i] = Absent]
with_nick(l, i, n) == [l EXCEPT ![i].nick = n]

\* Connection.__init__
InitConnection ==
    /\ state = NOT_RUNNING
    /\ ws = None
    /\ awaiting_replies = NoTable
    /\ ping_check = "none"
    /\ event_loop = FALSE
    /\ packet_id = 0
    /\ fut = [i \in Ids |-> "none"]
    /\ dbl = [i \in Ids |-> FALSE]
    /\ wsOpen = [w \in WsIds |-> FALSE]
    /\ closeReq = [w \in WsIds |-> FALSE]
    /\ discCloses = [w \in WsIds |-> 0]
    /\ nextWs = 0
    /\ wire = [i \in Ids |-> None]
    /\ leaked = 0
    /\ run = NoRun
    /\ dtask = [d \in DSlots |-> NoD]
    /\ call = [c \in Callers |-> IdleCall]
    /\ ncalls = 0
    /\ fired = <<>>
    /\ inbox = <<>>
    /\ seq = [c \in Callers |-> 0]
    /\ hq = <<>>

\* Room.__init__, lines 72-94, with the password and the nick it is given.
InitRoom(pw, nick) ==
    /\ hello_received = FALSE
    /\ snapshot_received = FALSE
    /\ connected = FALSE
    /\ connected_successfully = FALSE
    /\ password = pw
    /\ target_nick = nick
    /\ session_nick = "none"
    /\ users = NoUsers
    /\ rfired = <<>>
    /\ client = [rooms |-> FALSE, stop |-> FALSE, join |-> "none", part |-> "none",
                 stopping |-> "none", run |-> "none"]
    /\ rtask = [t \in RTasks |-> IdleTask]

\* A Connection of its own, made by the application.
Init == InitConnection /\ InitRoom("none", "")

\* A Room and its Connection.
RoomInit == InitConnection /\ \E pw \in Passwords : InitRoom(pw, "a")

\* ------------------------------------------------------------- helpers

\* A task of the application calls a public coroutine when it is in none. The
\* tasks are interchangeable: a call is made by the first task that is free.
MayCall(c) ==
    /\ call[c].pc = "done"
    /\ \A x \in Callers : x < c => call[x].pc # "done"
    /\ ncalls < MaxCalls
    /\ ncalls' = ncalls + 1

Done(c, r)   == [call[c] EXCEPT !.pc = "done", !.res = r, !.arg = 0, !.aw = FALSE]
At(c, p, a)  == [call[c] EXCEPT !.pc = p, !.arg = a]

\* A notify_all() on _connected_condition that wakes nobody.
WakeConnected_Nobody(cl) == cl

\* Condition.notify_all() on _connected_condition / _disconnected_condition:
\* every task parked in wait() becomes runnable.
WakeConnected(cl) ==
    [x \in Callers |-> IF cl[x].pc = "cwait" THEN [cl[x] EXCEPT !.pc = "cwoken"] ELSE cl[x]]
WakeDisconnected(cl) ==
    [x \in Callers |-> IF cl[x].pc = "dwait" THEN [cl[x] EXCEPT !.pc = "dwoken"] ELSE cl[x]]

\* The futures of the table that are already done, and the first of them in the
\* dict's iteration order (insertion order, which is the order of the ids).
DoneInTable == {i \in awaiting_replies \cap Ids : fut[i] # "pending"}
FirstDone   == CHOOSE i \in DoneInTable : \A j \in DoneInTable : i <= j

\* _disconnect(), lines 148-150: close() is called when there is a transport.
DisconnectCloses == ws # None

\* _disconnect(), lines 154-170, resumed once close() has returned: whether
\* Future.set_exception raises InvalidStateError on a future that is already done.
DisconnectRaises == ws # None /\ DoneInTable # {}

\* _disconnect(), lines 154-170: the state it leaves.
DisconnectFinish ==
    IF ws = None
    THEN UNCHANGED <<conn, fut, dbl>>
    ELSE IF DoneInTable # {}
    THEN /\ fut' = [i \in Ids |-> IF i \in awaiting_replies /\ i < FirstDone
                                  THEN "exception" ELSE fut[i]]
         /\ dbl' = [dbl EXCEPT ![FirstDone] = TRUE]
         /\ UNCHANGED conn
    ELSE /\ fut' = [i \in Ids |-> IF i \in awaiting_replies THEN "exception" ELSE fut[i]]
         /\ ping_check' = "none"
         /\ ws' = None
         /\ awaiting_replies' = NoTable
         /\ UNCHANGED dbl

\* _connect(), lines 182-197, resumed when websockets.connect has settled.
ConnectFinish(ok) ==
    IF ok
    THEN /\ nextWs < MaxWs
         /\ nextWs' = nextWs + 1
         /\ ws' = nextWs + 1
         /\ wsOpen' = [wsOpen EXCEPT ![nextWs + 1] = TRUE]
         /\ awaiting_replies' = {}
         /\ ping_check' = "armed"
         /\ leaked' = IF ping_check = "armed" THEN leaked + 1 ELSE leaked
    ELSE UNCHANGED <<conn, nextWs, wsOpen, leaked>>

\* ------------------------------------------------------------- connect()

\* connect() without the test of line 256: only CONNECTING is turned away.
CallConnect_OnlyConnectingRejected(c) ==
    /\ MayCall(c)
    /\ LET me == [IdleCall EXCEPT !.op = "connect"] IN
       IF state = CONNECTING
       THEN /\ call' = [call EXCEPT ![c] = [me EXCEPT !.res = "IncorrectStateConnecting"]]
            /\ UNCHANGED state
       ELSE /\ state' = CONNECTING
            /\ call' = [call EXCEPT ![c] = [me EXCEPT !.pc = "connect_open"]]
    /\ fired' = <<>>
    /\ UNCHANGED <<conn, event_loop, packet_id, fut, dbl, wsvars, wire, leaked, run, dtask>>

\* connect(), lines 251-267, up to the await of websockets.connect.
CallConnect(c) ==
    /\ MayCall(c)
    /\ LET me == [IdleCall EXCEPT !.op = "connect"] IN
       IF state = CONNECTING
       THEN /\ call' = [call EXCEPT ![c] = [me EXCEPT !.res = "IncorrectStateConnecting"]]
            /\ UNCHANGED state
       ELSE IF state # NOT_RUNNING
       THEN /\ call' = [call EXCEPT ![c] = [me EXCEPT !.res = "IncorrectState"]]
            /\ UNCHANGED state
       ELSE /\ state' = CONNECTING
            /\ call' = [call EXCEPT ![c] = [me EXCEPT !.pc = "connect_open"]]
    /\ fired' = <<>>
    /\ UNCHANGED <<conn, event_loop, packet_id, fut, dbl, wsvars, wire, leaked, run, dtask>>

\* connect(), lines 267-282 with _connect(), from the return of websockets.connect.
ConnectOpen(c, ok) ==
    /\ call[c].pc = "connect_open"
    /\ ConnectFinish(ok)
    /\ IF ok
       THEN /\ event_loop' = TRUE
            /\ run' = [pc |-> "start", w |-> None, exc |-> "none"]
            /\ state' = RUNNING
            /\ fired' = <<"connected">>
       ELSE /\ state' = NOT_RUNNING
            /\ fired' = <<>>
            /\ UNCHANGED <<event_loop, run>>
    /\ call' = WakeConnected([call EXCEPT ![c] = Done(c, IF ok THEN "true" ELSE "false")])
    /\ UNCHANGED <<ncalls, packet_id, fut, dbl, closeReq, discCloses, wire, dtask>>

\* ------------------------------------------------------------- disconnect()

\* disconnect() without the wait of lines 298-302.
DisconnectBody_NoConnectedWait(c, me) ==
    IF state = NOT_RUNNING
    THEN /\ call' = [call EXCEPT ![c] = [me EXCEPT !.pc = "done", !.res = "returned"]]
         /\ fired' = <<>>
         /\ UNCHANGED <<state, closeReq, discCloses>>
    ELSE IF state = DISCONNECTING
    THEN /\ call' = [call EXCEPT ![c] = [me EXCEPT !.pc = "dwait"]]
         /\ fired' = <<>>
         /\ UNCHANGED <<state, closeReq, discCloses>>
    ELSE /\ fired' = <<"disconnecting">>
         /\ state' = DISCONNECTING
         /\ IF DisconnectCloses
            THEN /\ closeReq' = [closeReq EXCEPT ![ws] = TRUE]
                 /\ discCloses' = [discCloses EXCEPT ![ws] = @ + 1]
                 /\ call' = [call EXCEPT ![c] = [me EXCEPT !.pc = "disc_close", !.arg = ws]]
            ELSE /\ call' = [call EXCEPT ![c] = [me EXCEPT !.pc = "disc_join"]]
                 /\ UNCHANGED <<closeReq, discCloses>>

\* disconnect(), lines 298-340: from the call, or from a wake-up of the wait on
\* _connected_condition, up to the next await.
DisconnectBody(c, me) ==
    IF state \in {CONNECTING, RECONNECTING}
    THEN /\ call' = [call EXCEPT ![c] = [me EXCEPT !.pc = "cwait"]]
         /\ fired' = <<>>
         /\ UNCHANGED <<state, closeReq, discCloses>>
    ELSE IF state = NOT_RUNNING
    THEN /\ call' = [call EXCEPT ![c] = [me EXCEPT !.pc = "done", !.res = "returned"]]
         /\ fired' = <<>>
         /\ UNCHANGED <<state, closeReq, discCloses>>
    ELSE IF state = DISCONNECTING
    THEN /\ call' = [call EXCEPT ![c] = [me EXCEPT !.pc = "dwait"]]
         /\ fired' = <<>>
         /\ UNCHANGED <<state, closeReq, discCloses>>
    ELSE /\ fired' = <<"disconnecting">>
         /\ state' = DISCONNECTING
         /\ IF DisconnectCloses
            THEN /\ closeReq' = [closeReq EXCEPT ![ws] = TRUE]
                 /\ discCloses' = [discCloses EXCEPT ![ws] = @ + 1]
                 /\ call' = [call EXCEPT ![c] = [me EXCEPT !.pc = "disc_close", !.arg = ws]]
            ELSE /\ call' = [call EXCEPT ![c] = [me EXCEPT !.pc = "disc_join"]]
                 /\ UNCHANGED <<closeReq, discCloses>>

CallDisconnect(c) ==
    /\ MayCall(c)
    /\ DisconnectBody(c, [IdleCall EXCEPT !.op = "disconnect"])
    /\ UNCHANGED <<conn, event_loop, packet_id, fut, dbl, wsOpen, nextWs, wire, leaked, run, dtask>>

\* disconnect(), line 340: _disconnect() resumed after close() has returned.
DisconnectClosed(c) ==
    /\ call[c].op = "disconnect"
    /\ call[c].pc = "disc_close"
    /\ ~wsOpen[call[c].arg]
    /\ DisconnectFinish
    /\ call' = [call EXCEPT ![c] = IF DisconnectRaises
                                   THEN Done(c, "InvalidStateError")
                                   ELSE At(c, "disc_join", 0)]
    /\ fired' = <<>>
    /\ UNCHANGED <<ncalls, state, event_loop, packet_id, wsvars, wire, leaked, run, dtask>>

\* disconnect(), lines 344-355: the await of the background task and what follows.
DisconnectJoin(c) ==
    /\ call[c].pc = "disc_join"
    /\ event_loop => run.pc \in {"done", "failed"}
    /\ IF event_loop /\ run.pc = "failed"
       THEN /\ call' = [call EXCEPT ![c] = Done(c, run.exc)]
            /\ UNCHANGED <<state, event_loop>>
       ELSE /\ event_loop' = FALSE
            /\ state' = NOT_RUNNING
            /\ call' = WakeDisconnected([call EXCEPT ![c] = Done(c, "returned")])
    /\ fired' = <<>>
    /\ UNCHANGED <<ncalls, conn, packet_id, fut, dbl, wsvars, wire, leaked, run, dtask>>

\* disconnect(), lines 318-322: woken from the wait on _disconnected_condition.
DisconnectWoken(c) ==
    /\ call[c].pc = "dwoken"
    /\ call' = [call EXCEPT ![c] = Done(c, "returned")]
    /\ fired' = <<>>
    /\ UNCHANGED <<ncalls, state, conn, event_loop, packet_id, fut, dbl, wsvars, wire, leaked, run, dtask>>

\* ------------------------------------------------------------- reconnect()

\* reconnect(), lines 369-387, up to the first await.
CallReconnect(c) ==
    /\ MayCall(c)
    /\ LET me == [IdleCall EXCEPT !.op = "reconnect"] IN
       IF state \in {CONNECTING, RECONNECTING}
       THEN /\ call' = [call EXCEPT ![c] = [me EXCEPT !.pc = "cwait"]]
            /\ UNCHANGED closeReq
       ELSE IF state # RUNNING
       THEN /\ call' = [call EXCEPT ![c] = [me EXCEPT !.res = "IncorrectState"]]
            /\ UNCHANGED closeReq
       ELSE IF DisconnectCloses
       THEN /\ closeReq' = [closeReq EXCEPT ![ws] = TRUE]
            /\ call' = [call EXCEPT ![c] = [me EXCEPT !.pc = "rec_close", !.arg = ws]]
       ELSE /\ call' = [call EXCEPT ![c] = [me EXCEPT !.res = "returned"]]
            /\ UNCHANGED closeReq
    /\ fired' = <<>>
    /\ UNCHANGED <<state, conn, event_loop, packet_id, fut, dbl, wsOpen, discCloses, nextWs,
                   wire, leaked, run, dtask>>

\* reconnect(), line 387: _disconnect() resumed after close() has returned.
ReconnectClosed(c) ==
    /\ call[c].op = "reconnect"
    /\ call[c].pc = "rec_close"
    /\ ~wsOpen[call[c].arg]
    /\ DisconnectFinish
    /\ call' = [call EXCEPT ![c] = Done(c, IF DisconnectRaises THEN "InvalidStateError"
                                                               ELSE "returned")]
    /\ fired' = <<>>
    /\ UNCHANGED <<ncalls, state, event_loop, packet_id, wsvars, wire, leaked, run, dtask>>

\* ------------------------------------------------------------- send()

\* websockets' send() on the transport: it raises ConnectionClosed unless the
\* transport is open and close() has not been called on it.
Transmits(w) == wsOpen[w] /\ ~closeReq[w]

\* send() without line 532: the counter is not advanced.
SendBody_IdNotAdvanced(c, me) ==
    IF state \in {CONNECTING, RECONNECTING}
    THEN /\ call' = [call EXCEPT ![c] = [me EXCEPT !.pc = "cwait"]]
         /\ UNCHANGED <<packet_id, fut, awaiting_replies, wire>>
    ELSE IF state # RUNNING \/ ws = None \/ awaiting_replies = NoTable
    THEN /\ call' = [call EXCEPT ![c] = [me EXCEPT !.pc = "done", !.res = "IncorrectState", !.aw = FALSE]]
         /\ UNCHANGED <<packet_id, fut, awaiting_replies, wire>>
    ELSE /\ UNCHANGED packet_id
         /\ IF me.aw
            THEN /\ fut' = [fut EXCEPT ![packet_id] = "pending"]
                 /\ awaiting_replies' = awaiting_replies \cup {packet_id}
            ELSE UNCHANGED <<fut, awaiting_replies>>
         /\ IF Transmits(ws)
            THEN /\ wire' = [wire EXCEPT ![packet_id] = ws]
                 /\ call' = [call EXCEPT ![c] =
                        IF me.aw THEN [me EXCEPT !.pc = "send_wait", !.arg = packet_id]
                                 ELSE [me EXCEPT !.pc = "done", !.res = "None", !.aw = FALSE]]
            ELSE /\ call' = [call EXCEPT ![c] =
                        [me EXCEPT !.pc = "done", !.res = "ConnectionClosed", !.aw = FALSE]]
                 /\ UNCHANGED wire

\* send() without the test of line 520: it sends whenever there is a transport.
SendBody_NoStateCheck(c, me) ==
    IF state \in {CONNECTING, RECONNECTING}
    THEN /\ call' = [call EXCEPT ![c] = [me EXCEPT !.pc = "cwait"]]
         /\ UNCHANGED <<packet_id, fut, awaiting_replies, wire>>
    ELSE IF ws = None \/ awaiting_replies = NoTable
    THEN /\ call' = [call EXCEPT ![c] = [me EXCEPT !.pc = "done", !.res = "IncorrectState", !.aw = FALSE]]
         /\ UNCHANGED <<packet_id, fut, awaiting_replies, wire>>
    ELSE /\ packet_id' = packet_id + 1
         /\ IF me.aw
            THEN /\ fut' = [fut EXCEPT ![packet_id] = "pending"]
                 /\ awaiting_replies' = awaiting_replies \cup {packet_id}
            ELSE UNCHANGED <<fut, awaiting_replies>>
         /\ wire' = [wire EXCEPT ![packet_id] = ws]
         /\ call' = [call EXCEPT ![c] =
                IF me.aw THEN [me EXCEPT !.pc = "send_wait", !.arg = packet_id]
                         ELSE [me EXCEPT !.pc = "done", !.res = "None", !.aw = FALSE]]

\* send(), lines 516-554: from the call, or from a wake-up of the wait on
\* _connected_condition, up to the await of the reply.
SendBody(c, me) ==
    IF state \in {CONNECTING, RECONNECTING}
    THEN /\ call' = [call EXCEPT ![c] = [me EXCEPT !.pc = "cwait"]]
         /\ UNCHANGED <<packet_id, fut, awaiting_replies, wire>>
    ELSE IF state # RUNNING \/ ws = None \/ awaiting_replies = NoTable
    THEN /\ call' = [call EXCEPT ![c] = [me EXCEPT !.pc = "done", !.res = "IncorrectState", !.aw = FALSE]]
         /\ UNCHANGED <<packet_id, fut, awaiting_replies, wire>>
    ELSE /\ packet_id' = packet_id + 1
         /\ IF me.aw
            THEN /\ fut' = [fut EXCEPT ![packet_id] = "pending"]
                 /\ awaiting_replies' = awaiting_replies \cup {packet_id}
            ELSE UNCHANGED <<fut, awaiting_replies>>
         /\ IF Transmits(ws)
            THEN /\ wire' = [wire EXCEPT ![packet_id] = ws]
                 /\ call' = [call EXCEPT ![c] =
                        IF me.aw THEN [me EXCEPT !.pc = "send_wait", !.arg = packet_id]
                                 ELSE [me EXCEPT !.pc = "done", !.res = "None", !.aw = FALSE]]
            ELSE /\ call' = [call EXCEPT ![c] =
                        [me EXCEPT !.pc = "done", !.res = "ConnectionClosed", !.aw = FALSE]]
                 /\ UNCHANGED wire

\* The calls of send() that have not yet taken their packet id.
SendsWaiting == {x \in Callers : call[x].op = "send" /\ call[x].pc \in {"cwait", "cwoken"}}

CallSend(c, await_reply) ==
    /\ MayCall(c)
    /\ packet_id + Cardinality(SendsWaiting) < MaxSends
    /\ SendBody(c, [IdleCall EXCEPT !.op = "send", !.aw = await_reply])
    /\ fired' = <<>>
    /\ UNCHANGED <<state, ws, ping_check, event_loop, dbl, wsvars, leaked, run, dtask>>

\* send(), lines 547-552: resumed when the reply future is done.
SendResume(c) ==
    /\ call[c].pc = "send_wait"
    /\ fut[call[c].arg] # "pending"
    /\ call' = [call EXCEPT ![c] = Done(c, IF fut[call[c].arg] = "result"
                                           THEN "reply" ELSE "ConnectionClosed")]
    /\ fired' = <<>>
    /\ UNCHANGED <<ncalls, state, conn, event_loop, packet_id, fut, dbl, wsvars, wire, leaked, run, dtask>>

\* ------------------------------------------------------------- wake-ups

\* A task woken from the wait on _connected_condition runs on: disconnect() and
\* send() test the state again (lines 298, 516), reconnect() returns (line 375).
ConnectedWoken(c) ==
    /\ call[c].pc = "cwoken"
    /\ \/ /\ call[c].op = "disconnect"
          /\ DisconnectBody(c, call[c])
          /\ UNCHANGED <<conn, packet_id, fut, wire>>
       \/ /\ call[c].op = "send"
          /\ SendBody(c, call[c])
          /\ fired' = <<>>
          /\ UNCHANGED <<state, ws, ping_check, closeReq, discCloses>>
       \/ /\ call[c].op = "reconnect"
          /\ call' = [call EXCEPT ![c] = Done(c, "returned")]
          /\ fired' = <<>>
          /\ UNCHANGED <<state, conn, packet_id, fut, wire, closeReq, discCloses>>
    /\ UNCHANGED <<ncalls, event_loop, dbl, wsOpen, nextWs, leaked, run, dtask>>

\* ------------------------------------------------------------- _run()

\* _reconnect(), lines 216-223, up to its first await. It raises
\* IncorrectStateException unless the state is RUNNING.
ReconnectBegin ==
    /\ fired' = <<"reconnecting">>
    /\ state' = RECONNECTING
    /\ IF DisconnectCloses
       THEN /\ closeReq' = [closeReq EXCEPT ![ws] = TRUE]
            /\ run' = [run EXCEPT !.pc = "recon_close", !.w = ws]
       ELSE /\ run' = [run EXCEPT !.pc = "recon_connect", !.w = None]
            /\ UNCHANGED closeReq

RunReturns ==
    /\ run' = [run EXCEPT !.pc = "done", !.w = None]
    /\ fired' = <<>>
    /\ UNCHANGED <<state, closeReq>>

\* _run(), lines 396-426: the task starts.
RunStart ==
    /\ run.pc = "start"
    /\ IF state # RUNNING
       THEN RunReturns
       ELSE IF ws # None
       THEN /\ run' = [run EXCEPT !.pc = "recv", !.w = ws]
            /\ fired' = <<>>
            /\ UNCHANGED <<state, closeReq>>
       ELSE ReconnectBegin
    /\ UNCHANGED <<ncalls, conn, event_loop, packet_id, fut, dbl, wsOpen, discCloses, nextWs, wire,
                   leaked, dtask, call>>

\* A frame of the server, json-decoded: its "id" (-1: it has none) and its "type".
Packet(i, t) == [id |-> i, type |-> t]

\* _process_packet(), lines 441-445: whether Future.set_result raises
\* InvalidStateError on a future that is already done.
ProcessRaises(p) ==
    p.id \in Ids /\ awaiting_replies # NoTable /\ p.id \in awaiting_replies /\ fut[p.id] # "pending"

\* _process_packet() without lines 441-445: the event is fired and the future of a
\* pending request is left alone.
ProcessPacket_FireOnly(p) ==
    /\ fired' = <<p.type>>
    /\ ping_check' = "armed"
    /\ UNCHANGED <<fut, dbl>>

\* _process_packet(), lines 436-456, for the packet p.
ProcessPacket(p) ==
    IF ProcessRaises(p)
    THEN /\ dbl' = [dbl EXCEPT ![p.id] = TRUE]
         /\ fired' = <<>>
         /\ UNCHANGED <<fut, ping_check>>
    ELSE /\ fut' = IF p.id \in Ids /\ awaiting_replies # NoTable /\ p.id \in awaiting_replies
                   THEN [fut EXCEPT ![p.id] = "result"] ELSE fut
         /\ fired' = <<p.type>>
         /\ ping_check' = "armed"
         /\ UNCHANGED dbl

\* The server sends the frame p on the transport _run() iterates over: the reply to
\* a request sent on it (the server answers a request once) or a packet without an id.
Sends(p) ==
    /\ run.pc = "recv"
    /\ wsOpen[run.w]
    /\ p.id \in Ids => wire[p.id] = run.w
    /\ wire' = IF p.id \in Ids THEN [wire EXCEPT ![p.id] = None] ELSE wire

\* The frame arrives and waits in the transport's queue for the next iteration.
FrameArrives(p) ==
    /\ Sends(p)
    /\ Len(inbox) < MaxInbox
    /\ inbox' = Append(inbox, p)
    /\ UNCHANGED <<state, conn, event_loop, packet_id, fut, dbl, wsvars, leaked, run, dtask,
                   call, ncalls, fired>>

\* _run(), lines 412-415: the iteration over the transport yields the frame p.
RunReceive(p) ==
    /\ run.pc = "recv"
    /\ ProcessPacket(p)
    /\ run' = IF ProcessRaises(p)
              THEN [run EXCEPT !.pc = "failed", !.w = None, !.exc = "InvalidStateError"]
              ELSE run
    /\ UNCHANGED <<ncalls, state, ws, awaiting_replies, event_loop, packet_id, wsvars, leaked,
                   dtask, call>>

\* The frame p arrives while _run() waits for one, and the iteration yields it.
RunReceiveNow(p) == inbox = <<>> /\ Sends(p) /\ RunReceive(p)

\* The iteration yields the oldest frame of the queue.
RunReceiveQueued == inbox # <<>> /\ RunReceive(Head(inbox)) /\ inbox' = Tail(inbox) /\ UNCHANGED wire

\* _run(), lines 416-426: the iteration over the transport ends because it closed.
RunClosed ==
    /\ run.pc = "recv"
    /\ ~wsOpen[run.w]
    /\ IF state # RUNNING THEN RunReturns ELSE ReconnectBegin
    /\ UNCHANGED <<ncalls, conn, event_loop, packet_id, fut, dbl, wsOpen, discCloses, nextWs, wire,
                   leaked, dtask, call>>

\* _reconnect(), line 223: _disconnect() resumed after close() has returned.
RunReconnectClosed ==
    /\ run.pc = "recon_close"
    /\ ~wsOpen[run.w]
    /\ DisconnectFinish
    /\ run' = IF DisconnectRaises
              THEN [run EXCEPT !.pc = "failed", !.w = None, !.exc = "InvalidStateError"]
              ELSE [run EXCEPT !.pc = "recon_connect", !.w = None]
    /\ fired' = <<>>
    /\ UNCHANGED <<ncalls, state, event_loop, packet_id, wsvars, wire, leaked, dtask, call>>

\* _reconnect(), lines 224-234, from the return of websockets.connect, and _run()
\* up to its next await: the receive of line 412 or the sleep of line 434.
RunReconnectOpened(ok) ==
    /\ run.pc = "recon_connect"
    /\ ConnectFinish(ok)
    /\ state' = RUNNING
    /\ fired' = <<"reconnected">>
    /\ call' = WakeConnected(call)
    /\ run' = IF ok THEN [run EXCEPT !.pc = "recv", !.w = ws']
                    ELSE [run EXCEPT !.pc = "sleep", !.w = None]
    /\ UNCHANGED <<ncalls, event_loop, packet_id, fut, dbl, closeReq, discCloses, wire, dtask>>

\* _run(), lines 434 and 426: the sleep of RECONNECT_DELAY ends and _reconnect()
\* is called again without a look at the state.
RunWake ==
    /\ run.pc = "sleep"
    /\ IF state # RUNNING
       THEN /\ run' = [run EXCEPT !.pc = "failed", !.exc = "IncorrectState"]
            /\ fired' = <<>>
            /\ UNCHANGED <<state, closeReq>>
       ELSE ReconnectBegin
    /\ UNCHANGED <<ncalls, conn, event_loop, packet_id, fut, dbl, wsOpen, discCloses, nextWs, wire,
                   leaked, dtask, call>>

\* ------------------------------------------------------------- watchdog

FreeSlot == CHOOSE d \in DSlots : dtask[d].pc = "free" /\ \A e \in DSlots : dtask[e].pc = "free" => d <= e

\* _disconnect_in(), lines 199-208: PING_TIMEOUT has passed on an armed timer, which
\* starts a task running _disconnect().
TimerFires ==
    /\ \E d \in DSlots : dtask[d].pc = "free"
    /\ \/ /\ ping_check = "armed"
          /\ ping_check' = "finished"
          /\ UNCHANGED leaked
       \/ /\ leaked > 0
          /\ leaked' = leaked - 1
          /\ UNCHANGED ping_check
    /\ dtask' = [dtask EXCEPT ![FreeSlot] = [pc |-> "start", w |-> None]]
    /\ fired' = <<>>
    /\ UNCHANGED <<ncalls, state, ws, awaiting_replies, event_loop, packet_id, fut, dbl, wsvars, wire,
                   run, call>>

\* _disconnect(), lines 148-158, run by the task the watchdog started.
WatchdogDisconnect(d) ==
    /\ dtask[d].pc = "start"
    /\ IF DisconnectCloses
       THEN /\ closeReq' = [closeReq EXCEPT ![ws] = TRUE]
            /\ dtask' = [dtask EXCEPT ![d] = [pc |-> "closing", w |-> ws]]
       ELSE /\ dtask' = [dtask EXCEPT ![d] = NoD]
            /\ UNCHANGED closeReq
    /\ fired' = <<>>
    /\ UNCHANGED <<ncalls, state, conn, event_loop, packet_id, fut, dbl, wsOpen, discCloses, nextWs,
                   wire, leaked, run, call>>

\* _disconnect(), lines 154-170, in that task, after close() has returned. An
\* exception ends the task and goes nowhere.
WatchdogClosed(d) ==
    /\ dtask[d].pc = "closing"
    /\ ~wsOpen[dtask[d].w]
    /\ DisconnectFinish
    /\ dtask' = [dtask EXCEPT ![d] = NoD]
    /\ fired' = <<>>
    /\ UNCHANGED <<ncalls, state, event_loop, packet_id, wsvars, wire, leaked, run, call>>

\* ------------------------------------------------------------- transport

\* The transport closes: the peer closes it, or the closing handshake that
\* close() started completes.
TransportCloses(w) ==
    /\ wsOpen[w]
    /\ wsOpen' = [wsOpen EXCEPT ![w] = FALSE]
    /\ closeReq' = [closeReq EXCEPT ![w] = FALSE]
    /\ wire' = [i \in Ids |-> IF wire[i] = w THEN None ELSE wire[i]]
    /\ fired' = <<>>
    /\ UNCHANGED <<state, conn, event_loop, packet_id, fut, dbl, discCloses, nextWs,
                   leaked, run, dtask, call, ncalls>>

\* ------------------------------------------------------------- specification

\* The frames of the server when nothing but the Connection reads them.
Frames == {Packet(i, "reply") : i \in Ids} \cup {Packet(-1, "ping-event")}

\* Connection.__init__, line 123: the callbacks the Connection registers for the
\* event e.
ConnectionCallbacks(e) == IF e = "ping-event" THEN <<"_ping_pong">> ELSE <<>>

\* Events.fire, line 25: the task made for the callback cb, called with the packet p.
Task(cb, p) == [cb |-> cb, p |-> p]

\* The callers of Events.fire (lines 220, 227, 273, 333, 449) do not await it and
\* fire is a coroutine function: the call makes a coroutine object that never
\* runs, so no task is made for any callback.
FireNotAwaited == UNCHANGED hq

\* No coroutine of a Room runs in the step.
NoRoom == UNCHANGED <<room, rtask>>

\* A step of the Connection when the application uses it directly, and the loop
\* takes every frame as it arrives.
Alone == FireNotAwaited /\ NoRoom /\ UNCHANGED <<inbox, seq>>

\* The calls in progress after the step, numbered in the order they were made.
Stamps ==
    seq' = [c \in Callers |-> IF call'[c].pc = "done" THEN 0
                              ELSE IF call[c].pc = "done" THEN ncalls'
                              ELSE seq[c]]

\* A step of that Connection when the frames wait in the transport's queue.
Queued == FireNotAwaited /\ NoRoom /\ Stamps

\* The Connection used directly: the application calls its public coroutines, and
\* the loop takes every frame as it arrives.
Next ==
    \/ \E c \in Callers : CallConnect(c) /\ Alone
    \/ \E c \in Callers, ok \in BOOLEAN : ConnectOpen(c, ok) /\ Alone
    \/ \E c \in Callers : CallDisconnect(c) /\ Alone
    \/ \E c \in Callers : DisconnectClosed(c) /\ Alone
    \/ \E c \in Callers : DisconnectJoin(c) /\ Alone
    \/ \E c \in Callers : DisconnectWoken(c) /\ Alone
    \/ \E c \in Callers : CallReconnect(c) /\ Alone
    \/ \E c \in Callers : ReconnectClosed(c) /\ Alone
    \/ \E c \in Callers, a \in BOOLEAN : CallSend(c, a) /\ Alone
    \/ \E c \in Callers : SendResume(c) /\ Alone
    \/ \E c \in Callers : ConnectedWoken(c) /\ Alone
    \/ RunStart /\ Alone
    \/ \E p \in Frames : RunReceiveNow(p) /\ Alone
    \/ RunClosed /\ Alone
    \/ RunReconnectClosed /\ Alone
    \/ \E ok \in BOOLEAN : RunReconnectOpened(ok) /\ Alone
    \/ RunWake /\ Alone
    \/ TimerFires /\ Alone
    \/ \E d \in DSlots : WatchdogDisconnect(d) /\ Alone
    \/ \E d \in DSlots : WatchdogClosed(d) /\ Alone
    \/ \E w \in WsIds : TransportCloses(w) /\ Alone

Spec == Init /\ [][Next]_vars

\* The steps of caller c's call once it is made.
CallerRuns(c) ==
    /\ \/ \E ok \in BOOLEAN : ConnectOpen(c, ok)
       \/ DisconnectClosed(c)
       \/ DisconnectJoin(c)
       \/ DisconnectWoken(c)
       \/ ReconnectClosed(c)
       \/ SendResume(c)
       \/ ConnectedWoken(c)
    /\ Alone

\* The steps of the background task.
RunRuns ==
    /\ \/ RunStart
       \/ RunClosed
       \/ RunReconnectClosed
       \/ \E ok \in BOOLEAN : RunReconnectOpened(ok)
       \/ RunWake
    /\ Alone

\* The steps of the tasks the watchdog starts.
WatchdogRuns == (\E d \in DSlots : WatchdogDisconnect(d) \/ WatchdogClosed(d)) /\ Alone

\* A transport that close() was called on closes.
CloseCompletes == (\E w \in WsIds : closeReq[w] /\ TransportCloses(w)) /\ Alone

\* What asyncio and the network do without anybody asking: every task that can
\* run does run, an attempt to open a transport settles, a sleep ends, an armed
\* timer expires and a close() completes. Nothing makes the application call, the
\* server send or the peer close.
FairSpec ==
    /\ Spec
    /\ \A c \in Callers : WF_vars(CallerRuns(c))
    /\ WF_vars(RunRuns)
    /\ WF_vars(TimerFires /\ Alone)
    /\ WF_vars(WatchdogRuns)
    /\ WF_vars(CloseCompletes)

\* The Connection with the transport's queue: frames arrive when the server sends
\* them and the loop takes them one by one; the calls are numbered in call order.
\* No PING_TIMEOUT passes without a frame.
QueueNext ==
    \/ \E c \in Callers : CallConnect(c) /\ Queued /\ UNCHANGED inbox
    \/ \E c \in Callers, ok \in BOOLEAN : ConnectOpen(c, ok) /\ Queued /\ UNCHANGED inbox
    \/ \E c \in Callers : CallDisconnect(c) /\ Queued /\ UNCHANGED inbox
    \/ \E c \in Callers : DisconnectClosed(c) /\ Queued /\ UNCHANGED inbox
    \/ \E c \in Callers : DisconnectJoin(c) /\ Queued /\ UNCHANGED inbox
    \/ \E c \in Callers : DisconnectWoken(c) /\ Queued /\ UNCHANGED inbox
    \/ \E c \in Callers : CallReconnect(c) /\ Queued /\ UNCHANGED inbox
    \/ \E c \in Callers : ReconnectClosed(c) /\ Queued /\ UNCHANGED inbox
    \/ \E c \in Callers, a \in BOOLEAN : CallSend(c, a) /\ Queued /\ UNCHANGED inbox
    \/ \E c \in Callers : SendResume(c) /\ Queued /\ UNCHANGED inbox
    \/ \E c \in Callers : ConnectedWoken(c) /\ Queued /\ UNCHANGED inbox
    \/ RunStart /\ Queued /\ UNCHANGED inbox
    \/ \E p \in Frames : FrameArrives(p) /\ Queued
    \/ RunReceiveQueued /\ Queued
    \/ inbox = <<>> /\ RunClosed /\ Queued /\ UNCHANGED inbox
    \/ RunReconnectClosed /\ Queued /\ UNCHANGED inbox
    \/ \E ok \in BOOLEAN : RunReconnectOpened(ok) /\ Queued /\ UNCHANGED inbox
    \/ RunWake /\ Queued /\ UNCHANGED inbox
    \/ \E w \in WsIds : TransportCloses(w) /\ Queued /\ UNCHANGED inbox

QueueSpec == Init /\ [][QueueNext]_vars

\* ------------------------------------------------------------- Room

\* The fields of the Room that its coroutines read and write, and the events a
\* step has passed to fire of the Room's Events so far.
Fields ==
    [hello |-> hello_received, snapshot |-> snapshot_received, connected |-> connected,
     successfully |-> connected_successfully, target_nick |-> target_nick,
     session_nick |-> session_nick, users |-> users, fired |-> <<>>, client |-> client]

\* Room._set_connected, lines 139-141.
SetConnected(r) == [r EXCEPT !.successfully = TRUE, !.connected = TRUE]

\* Room._set_connected_failed, lines 143-146.
SetConnectedFailed(r) ==
    IF r.connected THEN r ELSE [r EXCEPT !.successfully = FALSE, !.connected = TRUE]

\* _set_connected_reset that leaves the flags as they are.
SetConnectedReset_KeepsFlags(r) == [r EXCEPT !.connected = FALSE, !.successfully = FALSE]

\* Room._set_connected_reset, lines 148-152.
SetConnectedReset(r) ==
    [r EXCEPT !.connected = FALSE, !.successfully = FALSE, !.hello = FALSE, !.snapshot = FALSE]

\* _try_set_connected without the test of the gate.
PacketsReceived_GateIgnored(r) == r.hello /\ r.snapshot

\* _try_set_connected that goes on as soon as the hello-event is there.
PacketsReceived_HelloOnly(r) == r.hello /\ ~r.connected

\* Room._try_set_connected, lines 127-128: the test that lets it go on.
PacketsReceived(r) == r.hello /\ r.snapshot /\ ~r.connected

\* _set_nick_if_necessary that looks only at whether there is a session.
NickNeedsUpdating_OnlyWithoutSession(r) == r.target_nick # "" /\ r.session_nick = "none"

\* Room._set_nick_if_necessary, lines 133-136: whether it calls _nick.
NickNeedsUpdating(r) ==
    r.target_nick # "" /\ (r.session_nick = "none" \/ r.target_nick # r.session_nick)

\* A frame of the server that the Room has a callback for, read from transport
\* w: its type and the part of its data the callback uses (hello-event: the nick
\* of the session, which is new and has none; snapshot-event: the nick, or "none",
\* and the listing; bounce-event: whether passcode is among the auth options).
RoomPacket(t, d, w) == [id |-> -1, type |-> t, data |-> d, w |-> w, listing |-> EmptyListing]
NoPacket == RoomPacket("none", "none", None)

RoomFrames(w) ==
    {RoomPacket("hello-event", "", w)}
        \cup {RoomPacket("snapshot-event", n, w) : n \in {"none", "a"}}
        \cup {RoomPacket("bounce-event", o, w) : o \in BOOLEAN}

\* What a reply of the server says: to a nick command the nick it gave or an
\* error, to an auth command whether the passcode was right.
Replies == Nicks \cup {"error", "success", "failure"}

\* Room.__init__, lines 95-104 and 106: the callbacks the Room registers with its
\* Connection for the event e.
RoomCallbacks(e) ==
    CASE e = "reconnecting"     -> <<"_on_reconnecting">>
      [] e = "hello-event"      -> <<"_on_hello_event">>
      [] e = "snapshot-event"   -> <<"_on_snapshot_event">>
      [] e = "bounce-event"     -> <<"_on_bounce_event">>
      [] e = "disconnect-event" -> <<"_on_disconnect_event">>
      [] e = "join-event"       -> <<"_on_join_event">>
      [] e = "login-event"      -> <<"_on_login_event">>
      [] e = "logout-event"     -> <<"_on_logout_event">>
      [] e = "network-event"    -> <<"_on_network_event">>
      [] e = "nick-event"       -> <<"_on_nick_event">>
      [] e = "part-event"       -> <<"_on_part_event">>
      [] OTHER                  -> <<>>

\* An event passed to fire of the Room's Events, with the session id or the reason
\* it carries.
RoomEvent(e, a) == [event |-> e, arg |-> a]

\* Events.fire, lines 24-25, when the coroutine runs: a task is made for every
\* callback registered for the event, in the order of registration. The tasks
\* start in the order they are made.
Dispatch(p) ==
    LET cbs == IF fired' = <<>> THEN <<>>
               ELSE ConnectionCallbacks(fired'[1]) \o RoomCallbacks(fired'[1]) IN
    /\ Len(hq) + Len(cbs) <= MaxHq
    /\ hq' = hq \o [k \in 1..Len(cbs) |-> Task(cbs[k], p)]

\* The call of the Connection in slot c returns or raises in this step.
Returns(c) ==
    /\ call'[c].pc = "done"
    /\ \/ call[c].pc # "done"
       \/ ncalls' # ncalls /\ \A x \in Callers : x < c => call[x].pc # "done"

\* The first task slot that is free.
FreeTask(t) == rtask[t].pc = "done" /\ \A u \in RTasks : u < t => rtask[u].pc # "done"

\* A coroutine of the Room has ended with v: connect() and the commands leave what
\* they returned to the application and _on_bounce_event what the reply said, the
\* task of another callback leaves nothing.
Finished(k, v) ==
    IF k \in {"connect", "auth"} THEN [kind |-> k, pc |-> "done", res |-> v, c |-> 0]
    ELSE IF k \in Commands THEN [IdleTask EXCEPT !.res = v]
    ELSE IdleTask
Awaiting(k, c) == [kind |-> k, pc |-> "call", res |-> "none", c |-> c]

\* _extract_data without the test of line 414: the data is taken whatever the reply.
ExtractData_ErrorIgnored(op, x) == "data"

\* Room._extract_data, lines 412-417, on the reply x to the command op: a reply
\* with an error field raises EuphError (to a nick command the server answers with
\* the nick or with an error).
ExtractData(op, x) ==
    IF x = "error" \/ (op = "nick_cmd" /\ x \notin Nicks) THEN "EuphError" ELSE "data"

\* The listing a who reply carries: the reply "listing" has the Room's own session
\* and one other, the reply "others" has no entry for the own session.
ListingOf(x) ==
    IF x = "listing"
    THEN [EmptyListing EXCEPT ![OwnId] = [nick |-> "a", server_id |-> 1, server_era |-> 1],
                              !["s1"] = [nick |-> "b", server_id |-> 2, server_era |-> 1]]
    ELSE IF x = "others"
    THEN [EmptyListing EXCEPT !["s2"] = [nick |-> "a", server_id |-> 1, server_era |-> 2]]
    ELSE EmptyListing

\* Room.who, lines 501-508: the listing of the reply is stored without the Room's
\* own session, which replaces the cached session when the reply lists it.
WhoReplied(r, x) ==
    LET l == ListingOf(x) IN
    IF l[OwnId] # Absent
    THEN [r EXCEPT !.session_nick = l[OwnId].nick, !.users = with_part(l, OwnId)]
    ELSE [r EXCEPT !.users = l]

\* _nick that trusts the nick it asked for instead of the reply.
NickReplied_RequestTrusted(r, x) ==
    [r EXCEPT !.session_nick = IF @ = "none" THEN @ ELSE r.target_nick]

\* Room._nick, lines 455-459: the nick of the reply is stored as the target nick
\* and as the nick of the session, when there is one.
NickReplied(r, x) ==
    [r EXCEPT !.target_nick = x, !.session_nick = IF @ = "none" THEN @ ELSE x]

\* The coroutine of the Room that awaits the call of slot c goes on when the call
\* returns, in the same step of its task. s holds the fields and the tasks so far,
\* x is what the reply says.
\*   connect(), lines 222-231;
\*   _nick(), lines 454-463, and _try_set_connected, line 130;
\*   _on_bounce_event, lines 212-213;
\*   the commands, from _extract_data to the return (send 436-438, _nick 453-463,
\*   get 474-476, log 489-493, who 499-510, pm 558-562);
\*   _on_nick_event, lines 316-320, after its who(): kind "resync";
\*   _on_disconnect_event, lines 250-253, after its reconnect(): kind "reauth";
\*   _on_login_event and _on_logout_event end with their reconnect(): kind "relogin".
Continue(s, t, x) ==
    LET k   == s.rt[t].kind
        res == call'[s.rt[t].c].res
        end(v) == [s.rt EXCEPT ![t] = Finished(k, v)] IN
    CASE k = "connect" ->
            IF res # "true" THEN [r |-> s.r, rt |-> end(res)]
            ELSE IF s.r.connected
            THEN [r |-> IF s.r.successfully THEN [s.r EXCEPT !.fired = Append(@, RoomEvent("connected", ""))]
                                           ELSE s.r,
                  rt |-> end(IF s.r.successfully THEN "true" ELSE "false")]
            ELSE [r |-> s.r, rt |-> [s.rt EXCEPT ![t] = [@ EXCEPT !.pc = "gate", !.c = 0]]]
      [] k = "nick" ->
            IF res # "reply" THEN [r |-> s.r, rt |-> end(res)]
            ELSE IF x \notin Nicks THEN [r |-> s.r, rt |-> end("EuphError")]
            ELSE [r |-> SetConnected(NickReplied(s.r, x)), rt |-> end("None")]
      [] k = "auth" ->
            IF res # "reply" THEN [r |-> s.r, rt |-> end(res)]
            ELSE [r |-> IF x = "failure" THEN SetConnectedFailed(s.r) ELSE s.r,
                  rt |-> end(IF x = "failure" THEN "failure" ELSE "success")]
      [] k \in Commands \cup {"resync"} ->
            IF res # "reply" THEN [r |-> s.r, rt |-> end(res)]
            ELSE IF ExtractData(k, x) = "EuphError" THEN [r |-> s.r, rt |-> end("EuphError")]
            ELSE IF k = "nick_cmd"
            THEN [r |-> NickReplied(s.r, x), rt |-> end(x)]
            ELSE IF k = "who_cmd"
            THEN [r |-> WhoReplied(s.r, x), rt |-> end("data")]
            ELSE IF k = "resync"
            THEN [r |-> [WhoReplied(s.r, x) EXCEPT
                            !.fired = Append(@, RoomEvent("nick", ""))],
                  rt |-> end("data")]
            ELSE [r |-> s.r, rt |-> end("data")]
      [] k = "reauth" ->
            [r |-> IF res = "returned"
                   THEN [s.r EXCEPT !.fired = Append(@, RoomEvent("disconnect",
                                                              "authentication changed"))]
                   ELSE s.r,
             rt |-> end(res)]
      [] OTHER -> [r |-> s.r, rt |-> end(res)]

\* Event.set(), lines 141 and 146: the tasks waiting in _connected.wait() become
\* runnable when the gate goes from clear to set.
WakeGate(rt, r) ==
    IF ~connected /\ r.connected
    THEN [t \in RTasks |-> IF rt[t].pc = "gate" THEN [rt[t] EXCEPT !.pc = "gate_woken"] ELSE rt[t]]
    ELSE rt

\* join that tracks the room whatever connect() returned.
ClientAfter_AlwaysTracked(s, e) ==
    LET cl == e.r.client
        joined == {t \in RTasks : /\ e.rt[t].kind = "connect" /\ e.rt[t].pc = "done"
                                  /\ (rtask[t].pc # "done" \/ s.rt[t].pc # "done")}
        parted == {t \in RTasks : /\ s.rt[t].kind = "disconnect" /\ s.rt[t].pc = "call"
                                  /\ Returns(s.rt[t].c)} IN
    IF cl.join = "connecting" /\ joined # {}
    THEN [cl EXCEPT !.join = "done", !.rooms = TRUE]
    ELSE IF cl.part = "running" /\ parted # {}
    THEN [cl EXCEPT !.part = IF \A t \in parted : call'[s.rt[t].c].res = "returned"
                             THEN "returned" ELSE "raised"]
    ELSE cl

\* Client.join, lines 100-108, and Client.part, line 117, go on in the step in
\* which connect() or disconnect() of the Room returns or raises: the room is
\* tracked when connect() returned true, and the task of part ends. s holds the
\* tasks before the coroutine of the Room went on, e after.
ClientAfter(s, e) ==
    LET cl == e.r.client
        joined == {t \in RTasks : /\ e.rt[t].kind = "connect" /\ e.rt[t].pc = "done"
                                  /\ (rtask[t].pc # "done" \/ s.rt[t].pc # "done")}
        parted == {t \in RTasks : /\ s.rt[t].kind = "disconnect" /\ s.rt[t].pc = "call"
                                  /\ Returns(s.rt[t].c)} IN
    IF cl.join = "connecting" /\ joined # {}
    THEN [cl EXCEPT !.join = "done", !.rooms = \E t \in joined : e.rt[t].res = "true"]
    ELSE IF cl.part = "running" /\ parted # {}
    THEN [cl EXCEPT !.part = IF \A t \in parted : call'[s.rt[t].c].res = "returned"
                             THEN "returned" ELSE "raised"]
    ELSE cl

\* The Room's part of a step: s holds the fields and the tasks after what the
\* step's own coroutine did; a coroutine whose call of the Connection returns in
\* the step goes on; then the fields and the tasks are stored.
RoomStep(s, x) ==
    LET owners == {t \in RTasks : s.rt[t].pc = "call" /\ Returns(s.rt[t].c)} IN
    \E e \in {IF owners = {} THEN s ELSE Continue(s, CHOOSE t \in owners : TRUE, x)} :
    /\ hello_received' = e.r.hello
    /\ snapshot_received' = e.r.snapshot
    /\ connected' = e.r.connected
    /\ connected_successfully' = e.r.successfully
    /\ target_nick' = e.r.target_nick
    /\ session_nick' = e.r.session_nick
    /\ users' = e.r.users
    /\ rfired' = e.r.fired
    /\ client' = ClientAfter(s, e)
    /\ rtask' = WakeGate(e.rt, e.r)
    /\ UNCHANGED <<password, inbox, seq>>

\* A step of the Connection under a Room: the events it fires are dispatched and
\* the coroutine of the Room that awaited it goes on.
UnderRoom == Dispatch(NoPacket) /\ RoomStep([r |-> Fields, rt |-> rtask], "error")

\* A step of a coroutine of the Room that does not call the Connection.
RoomOnly ==
    /\ fired' = <<>>
    /\ UNCHANGED <<state, conn, event_loop, packet_id, fut, dbl, wsvars, wire, leaked, run,
                   dtask, call, ncalls>>

\* Room.connect(), lines 222-223: the call of Connection.connect().
RoomConnect(t, c) ==
    /\ FreeTask(t)
    /\ CallConnect(c)
    /\ Dispatch(NoPacket)
    /\ RoomStep([r |-> Fields, rt |-> [rtask EXCEPT ![t] = Awaiting("connect", c)]], "error")

\* Room.connect(), lines 225-231: resumed from _connected.wait().
GateResume(t) ==
    /\ rtask[t].pc = "gate_woken"
    /\ rtask[t].kind = "connect"
    /\ RoomOnly
    /\ UNCHANGED hq
    /\ RoomStep([r |-> [Fields EXCEPT !.fired = IF connected_successfully
                                                 THEN <<RoomEvent("connected", "")>> ELSE <<>>],
                 rt |-> [rtask EXCEPT ![t] = Finished("connect",
                            IF connected_successfully THEN "true" ELSE "false")]], "error")

\* Room._on_reconnecting, lines 154-155: the task that fire made for it starts.
OnReconnecting ==
    /\ hq # <<>> /\ Head(hq).cb = "_on_reconnecting"
    /\ hq' = Tail(hq)
    /\ RoomOnly
    /\ RoomStep([r |-> SetConnectedReset(Fields), rt |-> rtask], "error")

\* _try_set_connected that sets the gate before it awaits the nick command.
TrySetConnected_GateBeforeReply(r) ==
    IF ~PacketsReceived(r)
    THEN RoomOnly /\ RoomStep([r |-> r, rt |-> rtask], "error")
    ELSE IF ~NickNeedsUpdating(r)
    THEN RoomOnly /\ RoomStep([r |-> SetConnected(r), rt |-> rtask], "error")
    ELSE \E t \in RTasks, c \in Callers :
            /\ FreeTask(t)
            /\ CallSend(c, TRUE)
            /\ RoomStep([r |-> SetConnected(r),
                         rt |-> [rtask EXCEPT ![t] = Awaiting("nick", c)]], "error")

\* Room._try_set_connected, lines 126-130, with _set_nick_if_necessary and _nick
\* up to the send of the nick command (lines 449-453), in the task of a callback
\* that has brought the fields to r.
TrySetConnected(r) ==
    IF ~PacketsReceived(r)
    THEN RoomOnly /\ RoomStep([r |-> r, rt |-> rtask], "error")
    ELSE IF ~NickNeedsUpdating(r)
    THEN RoomOnly /\ RoomStep([r |-> SetConnected(r), rt |-> rtask], "error")
    ELSE \E t \in RTasks, c \in Callers :
            /\ FreeTask(t)
            /\ CallSend(c, TRUE)
            /\ RoomStep([r |-> r, rt |-> [rtask EXCEPT ![t] = Awaiting("nick", c)]], "error")

\* Room._on_hello_event, lines 157-168.
OnHelloEvent ==
    /\ hq # <<>> /\ Head(hq).cb = "_on_hello_event"
    /\ hq' = Tail(hq)
    /\ TrySetConnected([Fields EXCEPT !.session_nick = Head(hq).p.data, !.hello = TRUE])

\* Room._on_snapshot_event, lines 170-189.
OnSnapshotEvent ==
    /\ hq # <<>> /\ Head(hq).cb = "_on_snapshot_event"
    /\ hq' = Tail(hq)
    /\ TrySetConnected([Fields EXCEPT
            !.users = Head(hq).p.listing,
            !.session_nick = IF Head(hq).p.data # "none" /\ @ # "none" THEN Head(hq).p.data ELSE @,
            !.fired = <<RoomEvent("session", "")>>,
            !.snapshot = TRUE])

\* Room._on_bounce_event, lines 191-210, up to the send of the auth command.
OnBounceEvent ==
    /\ hq # <<>> /\ Head(hq).cb = "_on_bounce_event"
    /\ hq' = Tail(hq)
    /\ IF ~Head(hq).p.data \/ password = "none"
       THEN RoomOnly /\ RoomStep([r |-> SetConnectedFailed(Fields), rt |-> rtask], "error")
       ELSE \E t \in RTasks, c \in Callers :
               /\ FreeTask(t)
               /\ CallSend(c, TRUE)
               /\ RoomStep([r |-> Fields, rt |-> [rtask EXCEPT ![t] = Awaiting("auth", c)]], "error")

\* asyncio runs the tasks that are ready, in the order they became ready, before
\* it looks at the network and the timers again: the tasks fire has made have
\* started and the tasks woken by a future, a condition or the gate have run on
\* before a coroutine that waits for the network is resumed.
Settled ==
    /\ hq = <<>>
    /\ \A c \in Callers :
          /\ call[c].pc \notin {"cwoken", "dwoken"}
          /\ ~(call[c].pc = "send_wait" /\ fut[call[c].arg] # "pending")
    /\ \A t \in RTasks : rtask[t].pc # "gate_woken"

\* A Room and its Connection when Events.fire runs: the application calls
\* connect() of the Room; the server sends the frames the Room has callbacks for
\* and the replies, and closes the transport when it likes. No PING_TIMEOUT passes
\* without a frame. No send() has to wait here: a callback starts in the state its
\* frame was read in.
RoomNext ==
    \/ \E t \in RTasks, c \in Callers : RoomConnect(t, c)
    \/ Settled /\ \E c \in Callers, ok \in BOOLEAN : ConnectOpen(c, ok) /\ UnderRoom
    \/ \E c \in Callers, x \in Replies :
          SendResume(c) /\ Dispatch(NoPacket) /\ RoomStep([r |-> Fields, rt |-> rtask], x)
    \/ \E t \in RTasks : GateResume(t)
    \/ OnReconnecting
    \/ OnHelloEvent
    \/ OnSnapshotEvent
    \/ OnBounceEvent
    \/ RunStart /\ UnderRoom
    \/ Settled /\ \E p \in {Packet(i, "reply") : i \in Ids} \cup RoomFrames(run.w) :
          RunReceiveNow(p) /\ Dispatch(p) /\ RoomStep([r |-> Fields, rt |-> rtask], "error")
    \/ Settled /\ RunClosed /\ UnderRoom
    \/ Settled /\ RunReconnectClosed /\ UnderRoom
    \/ Settled /\ \E ok \in BOOLEAN : RunReconnectOpened(ok) /\ UnderRoom
    \/ Settled /\ RunWake /\ UnderRoom
    \/ \E w \in WsIds : TransportCloses(w) /\ UnderRoom

RoomSpec == RoomInit /\ [][RoomNext]_vars

\* The same when the application also forces reconnects, with reconnect() of the
\* Connection, and the transport closes only when close() is called on it.
ForcedNext ==
    \/ \E t \in RTasks, c \in Callers : RoomConnect(t, c)
    \/ Settled /\ \E c \in Callers, ok \in BOOLEAN : ConnectOpen(c, ok) /\ UnderRoom
    \/ \E c \in Callers : CallReconnect(c) /\ UnderRoom
    \/ Settled /\ \E c \in Callers : ReconnectClosed(c) /\ UnderRoom
    \/ \E c \in Callers, x \in Replies :
          SendResume(c) /\ Dispatch(NoPacket) /\ RoomStep([r |-> Fields, rt |-> rtask], x)
    \/ \E c \in Callers : ConnectedWoken(c) /\ UnderRoom
    \/ \E t \in RTasks : GateResume(t)
    \/ OnReconnecting
    \/ OnHelloEvent
    \/ OnSnapshotEvent
    \/ OnBounceEvent
    \/ RunStart /\ UnderRoom
    \/ Settled /\ \E p \in {Packet(i, "reply") : i \in Ids} \cup RoomFrames(run.w) :
          RunReceiveNow(p) /\ Dispatch(p) /\ RoomStep([r |-> Fields, rt |-> rtask], "error")
    \/ Settled /\ RunClosed /\ UnderRoom
    \/ Settled /\ RunReconnectClosed /\ UnderRoom
    \/ Settled /\ \E ok \in BOOLEAN : RunReconnectOpened(ok) /\ UnderRoom
    \/ Settled /\ RunWake /\ UnderRoom
    \/ \E w \in WsIds : closeReq[w] /\ TransportCloses(w) /\ UnderRoom

ForcedSpec == RoomInit /\ [][ForcedNext]_vars

\* The same as RoomSpec for a Room made with or without a nick (Room.__init__,
\* target_nick, default "").
HandshakeInit == InitConnection /\ \E pw \in Passwords, nick \in {"", "a"} : InitRoom(pw, nick)
HandshakeSpec == HandshakeInit /\ [][RoomNext]_vars

\* The frames of one handshake per transport: the server sends one hello-event
\* and one snapshot-event, no bounce-event after the snapshot-event and no
\* snapshot-event while it has an auth command to answer (the flags of the Room,
\* reset by _on_reconnecting, tell what this transport has delivered).
OneHandshakeFrames(w) ==
    {p \in RoomFrames(w) :
        CASE p.type = "hello-event"    -> ~hello_received
          [] p.type = "snapshot-event" ->
                /\ ~snapshot_received
                /\ \A t \in RTasks : ~(rtask[t].kind = "auth" /\ rtask[t].pc = "call")
          [] OTHER                     -> ~snapshot_received}

\* RoomSpec with a server that keeps to one handshake per transport.
OneHandshakeNext ==
    \/ \E t \in RTasks, c \in Callers : RoomConnect(t, c)
    \/ Settled /\ \E c \in Callers, ok \in BOOLEAN : ConnectOpen(c, ok) /\ UnderRoom
    \/ \E c \in Callers, x \in Replies :
          SendResume(c) /\ Dispatch(NoPacket) /\ RoomStep([r |-> Fields, rt |-> rtask], x)
    \/ \E t \in RTasks : GateResume(t)
    \/ OnReconnecting
    \/ OnHelloEvent
    \/ OnSnapshotEvent
    \/ OnBounceEvent
    \/ RunStart /\ UnderRoom
    \/ Settled /\ \E p \in {Packet(i, "reply") : i \in Ids} \cup OneHandshakeFrames(run.w) :
          RunReceiveNow(p) /\ Dispatch(p) /\ RoomStep([r |-> Fields, rt |-> rtask], "error")
    \/ Settled /\ RunClosed /\ UnderRoom
    \/ Settled /\ RunReconnectClosed /\ UnderRoom
    \/ Settled /\ \E ok \in BOOLEAN : RunReconnectOpened(ok) /\ UnderRoom
    \/ Settled /\ RunWake /\ UnderRoom
    \/ \E w \in WsIds : TransportCloses(w) /\ UnderRoom

OneHandshakeSpec == HandshakeInit /\ [][OneHandshakeNext]_vars

\* The Room and its Connection as the calls of Events.fire stand, not awaited: no
\* callback is started, so the gate is never set and no command is sent.
AsCalled == FireNotAwaited /\ RoomStep([r |-> Fields, rt |-> rtask], "error")

AsCalledNext ==
    \/ \E t \in RTasks, c \in Callers : RoomConnect(t, c)
    \/ \E c \in Callers, ok \in BOOLEAN : ConnectOpen(c, ok) /\ AsCalled
    \/ RunStart /\ AsCalled
    \/ \E p \in RoomFrames(run.w) : RunReceiveNow(p) /\ AsCalled
    \/ RunClosed /\ AsCalled
    \/ RunReconnectClosed /\ AsCalled
    \/ \E ok \in BOOLEAN : RunReconnectOpened(ok) /\ AsCalled
    \/ RunWake /\ AsCalled
    \/ \E w \in WsIds : TransportCloses(w) /\ AsCalled

AsCalledSpec == RoomInit /\ [][AsCalledNext]_vars

\* Whether the command op begins with _ensure_connected (lines 429, 466, 471, 482,
\* 496): pm (lines 550-557) does not.
EnsuresConnected(op) == op # "pm_cmd"

\* A command past the wait of _ensure_connected, lines 422-423, up to the await of
\* the reply to its one Connection.send (lines 435, 452, 473, 488, 498, 557);
\* _nick stores the nick it asks for first (line 450).
Proceed(t, op) ==
    IF EnsuresConnected(op) /\ ~connected_successfully
    THEN /\ RoomOnly
         /\ RoomStep([r |-> Fields,
                      rt |-> [rtask EXCEPT ![t] = Finished(op, "RoomNotConnected")]], "error")
    ELSE \E c \in Callers :
            /\ CallSend(c, TRUE)
            /\ RoomStep([r |-> IF op = "nick_cmd" THEN [Fields EXCEPT !.target_nick = Requested]
                                                    ELSE Fields,
                         rt |-> [rtask EXCEPT ![t] = Awaiting(op, c)]], "error")

\* The application calls the command op: _ensure_connected, lines 419-420, waits
\* when the gate is clear.
RoomCommand(t, op) ==
    /\ FreeTask(t)
    /\ Cardinality({u \in RTasks : rtask[u].kind \in Commands}) < MaxCommands
    /\ UNCHANGED hq
    /\ IF EnsuresConnected(op) /\ ~connected
       THEN /\ RoomOnly
            /\ RoomStep([r |-> Fields,
                         rt |-> [rtask EXCEPT ![t] = [kind |-> op, pc |-> "gate",
                                                      res |-> "none", c |-> 0]]], "error")
       ELSE Proceed(t, op)

\* _ensure_connected, lines 420-423: resumed from _connected.wait().
CommandResume(t) ==
    /\ rtask[t].pc = "gate_woken"
    /\ rtask[t].kind \in Commands \cup {"resync"}
    /\ UNCHANGED hq
    /\ Proceed(t, rtask[t].kind)

\* A Room and its Connection when Events.fire runs and the application also calls
\* the commands of the Room, one at a time, while the transport stays open.
CommandNext ==
    \/ \E t \in RTasks, c \in Callers : RoomConnect(t, c)
    \/ Settled /\ \E c \in Callers, ok \in BOOLEAN : ConnectOpen(c, ok) /\ UnderRoom
    \/ \E t \in RTasks, op \in Commands : RoomCommand(t, op)
    \/ \E t \in RTasks : CommandResume(t)
    \/ \E c \in Callers, x \in Replies :
          SendResume(c) /\ Dispatch(NoPacket) /\ RoomStep([r |-> Fields, rt |-> rtask], x)
    \/ \E c \in Callers : ConnectedWoken(c) /\ UnderRoom
    \/ \E t \in RTasks : GateResume(t)
    \/ OnHelloEvent
    \/ OnSnapshotEvent
    \/ OnBounceEvent
    \/ RunStart /\ UnderRoom
    \/ Settled /\ \E p \in {Packet(i, "reply") : i \in Ids} \cup RoomFrames(run.w) :
          RunReceiveNow(p) /\ Dispatch(p) /\ RoomStep([r |-> Fields, rt |-> rtask], "error")

CommandSpec == RoomInit /\ [][CommandNext]_vars

\* Room.disconnect(), lines 242-243: the reset and the call of
\* Connection.disconnect().
RoomDisconnect(t, c) ==
    /\ FreeTask(t)
    /\ CallDisconnect(c)
    /\ Dispatch(NoPacket)
    /\ RoomStep([r |-> SetConnectedReset(Fields),
                 rt |-> [rtask EXCEPT ![t] = Awaiting("disconnect", c)]], "error")

\* A Room made without a password, and its Connection.
DisposeInit == InitConnection /\ InitRoom("none", "a")

\* A Room that the application connects, sends messages with and disposes of
\* with disconnect(), when Events.fire runs; the transport closes only when
\* close() is called on it.
DisposeNext ==
    \/ \E t \in RTasks, c \in Callers : RoomConnect(t, c)
    \/ Settled /\ \E c \in Callers, ok \in BOOLEAN : ConnectOpen(c, ok) /\ UnderRoom
    \/ \E t \in RTasks : RoomCommand(t, "send_cmd")
    \/ \E t \in RTasks : CommandResume(t)
    \/ \E t \in RTasks, c \in Callers : RoomDisconnect(t, c)
    \/ Settled /\ \E c \in Callers : DisconnectClosed(c) /\ UnderRoom
    \/ \E c \in Callers : DisconnectJoin(c) /\ UnderRoom
    \/ \E c \in Callers, x \in Replies :
          SendResume(c) /\ Dispatch(NoPacket) /\ RoomStep([r |-> Fields, rt |-> rtask], x)
    \/ \E c \in Callers : ConnectedWoken(c) /\ UnderRoom
    \/ \E t \in RTasks : GateResume(t)
    \/ OnHelloEvent
    \/ OnSnapshotEvent
    \/ OnBounceEvent
    \/ RunStart /\ UnderRoom
    \/ Settled /\ \E p \in {Packet(i, "reply") : i \in Ids} \cup RoomFrames(run.w) :
          RunReceiveNow(p) /\ Dispatch(p) /\ RoomStep([r |-> Fields, rt |-> rtask], "error")
    \/ Settled /\ RunClosed /\ UnderRoom
    \/ \E w \in WsIds : closeReq[w] /\ TransportCloses(w) /\ UnderRoom

\* What asyncio and the network do without anybody asking: every task that can run
\* does run, an attempt to open a transport settles and a close() completes.
\* Nothing makes the application call or the server send.
DisposeSpec ==
    /\ DisposeInit /\ [][DisposeNext]_vars
    /\ WF_vars(Settled /\ \E c \in Callers, ok \in BOOLEAN : ConnectOpen(c, ok) /\ UnderRoom)
    /\ WF_vars(\E t \in RTasks : CommandResume(t))
    /\ WF_vars(Settled /\ \E c \in Callers : DisconnectClosed(c) /\ UnderRoom)
    /\ WF_vars(\E c \in Callers : DisconnectJoin(c) /\ UnderRoom)
    /\ WF_vars(\E c \in Callers, x \in Replies :
                  SendResume(c) /\ Dispatch(NoPacket) /\ RoomStep([r |-> Fields, rt |-> rtask], x))
    /\ WF_vars(\E c \in Callers : ConnectedWoken(c) /\ UnderRoom)
    /\ WF_vars(\E t \in RTasks : GateResume(t))
    /\ WF_vars(OnHelloEvent) /\ WF_vars(OnSnapshotEvent) /\ WF_vars(OnBounceEvent)
    /\ WF_vars(RunStart /\ UnderRoom)
    /\ WF_vars(Settled /\ RunClosed /\ UnderRoom)
    /\ WF_vars(\E w \in WsIds : closeReq[w] /\ TransportCloses(w) /\ UnderRoom)

\* ------------------------------------------------------------- the listing

\* _on_join_event that does not store the listing with_join returns.
OnJoinEvent_ListingNotStored ==
    /\ hq # <<>> /\ Head(hq).cb = "_on_join_event"
    /\ hq' = Tail(hq)
    /\ RoomOnly
    /\ RoomStep([r |-> IF users = NoUsers THEN Fields
                       ELSE [Fields EXCEPT
                               !.fired = <<RoomEvent("join", Head(hq).p.data.session_id)>>],
                 rt |-> rtask], "error")

\* Room._on_join_event, lines 255-262. The users property (lines 395-396) raises
\* RoomNotConnectedException while there is no listing, in every callback below.
OnJoinEvent ==
    /\ hq # <<>> /\ Head(hq).cb = "_on_join_event"
    /\ hq' = Tail(hq)
    /\ RoomOnly
    /\ LET d == Head(hq).p.data IN
       RoomStep([r |-> IF users = NoUsers THEN Fields
                       ELSE [Fields EXCEPT
                               !.users = with_join(@, d.session_id,
                                   [nick |-> d.nick, server_id |-> d.server_id,
                                    server_era |-> d.server_era]),
                               !.fired = <<RoomEvent("join", d.session_id)>>],
                 rt |-> rtask], "error")

\* Room._on_part_event, lines 329-336.
OnPartEvent ==
    /\ hq # <<>> /\ Head(hq).cb = "_on_part_event"
    /\ hq' = Tail(hq)
    /\ RoomOnly
    /\ LET d == Head(hq).p.data IN
       RoomStep([r |-> IF users = NoUsers THEN Fields
                       ELSE [Fields EXCEPT
                               !.users = with_part(@, d.session_id),
                               !.fired = <<RoomEvent("part", d.session_id)>>],
                 rt |-> rtask], "error")

\* _on_network_event that compares the id of the server only.
OnNetworkEvent_EraIgnored ==
    /\ hq # <<>> /\ Head(hq).cb = "_on_network_event"
    /\ hq' = Tail(hq)
    /\ RoomOnly
    /\ LET d == Head(hq).p.data
           gone == IF users = NoUsers THEN {}
                   ELSE {i \in DOMAIN users : users[i] # Absent
                                              /\ users[i].server_id = d.server_id}
           order == SelectSeq(<<OwnId, "s1", "s2">>, LAMBDA i : i \in gone) IN
       RoomStep([r |-> IF d.type # "partition" \/ users = NoUsers THEN Fields
                       ELSE [Fields EXCEPT
                               !.users = [i \in DOMAIN users |->
                                             IF i \in gone THEN Absent ELSE users[i]],
                               !.fired = [k \in 1..Len(order) |-> RoomEvent("part", order[k])]],
                 rt |-> rtask], "error")

\* Room._on_network_event, lines 290-305: the sessions of the listing are gone
\* through in the order of their ids.
OnNetworkEvent ==
    /\ hq # <<>> /\ Head(hq).cb = "_on_network_event"
    /\ hq' = Tail(hq)
    /\ RoomOnly
    /\ LET d == Head(hq).p.data
           gone == IF users = NoUsers THEN {}
                   ELSE {i \in DOMAIN users : users[i] # Absent
                                              /\ users[i].server_id = d.server_id
                                              /\ users[i].server_era = d.server_era}
           order == SelectSeq(<<OwnId, "s1", "s2">>, LAMBDA i : i \in gone) IN
       RoomStep([r |-> IF d.type # "partition" \/ users = NoUsers THEN Fields
                       ELSE [Fields EXCEPT
                               !.users = [i \in DOMAIN users |->
                                             IF i \in gone THEN Absent ELSE users[i]],
                               !.fired = [k \in 1..Len(order) |-> RoomEvent("part", order[k])]],
                 rt |-> rtask], "error")

\* Room._on_nick_event, lines 307-320, up to the send of the who command when the
\* session is not listed (who, lines 495-498).
OnNickEvent ==
    /\ hq # <<>> /\ Head(hq).cb = "_on_nick_event"
    /\ hq' = Tail(hq)
    /\ LET d == Head(hq).p.data IN
       IF users = NoUsers
       THEN RoomOnly /\ RoomStep([r |-> Fields, rt |-> rtask], "error")
       ELSE IF users[d.session_id] # Absent
       THEN /\ RoomOnly
            /\ RoomStep([r |-> [Fields EXCEPT
                                  !.users = with_nick(@, d.session_id, d.to),
                                  !.fired = <<RoomEvent("nick", d.session_id)>>],
                         rt |-> rtask], "error")
       ELSE \E t \in RTasks :
               /\ FreeTask(t)
               /\ IF ~connected
                  THEN /\ RoomOnly
                       /\ RoomStep([r |-> Fields,
                                    rt |-> [rtask EXCEPT ![t] = [kind |-> "resync", pc |-> "gate",
                                                                 res |-> "none", c |-> 0]]],
                                   "error")
                  ELSE Proceed(t, "resync")

\* The frames about the sessions of the room, read from transport w.
ListingFrames(w) ==
    {[RoomPacket("snapshot-event", "none", w) EXCEPT !.listing = l] :
        l \in {EmptyListing, ListingOf("others")}}
        \cup {RoomPacket("hello-event", "", w)}
        \cup {RoomPacket("join-event",
                          [session_id |-> i, nick |-> "a", server_id |-> z[1], server_era |-> z[2]], w) :
                 i \in SessionIds, z \in {<<1, 1>>, <<1, 2>>, <<2, 1>>}}
        \cup {RoomPacket("part-event",
                          [session_id |-> i, nick |-> "a", server_id |-> 1, server_era |-> 1], w) :
                 i \in SessionIds}
        \cup {RoomPacket("network-event", [type |-> "partition", server_id |-> s, server_era |-> a], w) :
                 s \in Servers, a \in Servers}
        \cup {RoomPacket("network-event", [type |-> "other", server_id |-> 1, server_era |-> 1], w)}
        \cup {RoomPacket("nick-event", [session_id |-> i, to |-> n], w) :
                 i \in SessionIds, n \in Nicks}

\* A Room and its Connection when Events.fire runs, while the transport stays
\* open: the server sends the frames about the sessions of the room, and answers
\* the who command with a listing or with an error.
ListingNext ==
    \/ \E t \in RTasks, c \in Callers : RoomConnect(t, c)
    \/ Settled /\ \E c \in Callers : ConnectOpen(c, TRUE) /\ UnderRoom
    \/ \E t \in RTasks : CommandResume(t)
    \/ \E c \in Callers, x \in Nicks \cup {"error", "listing", "others"} :
          SendResume(c) /\ Dispatch(NoPacket) /\ RoomStep([r |-> Fields, rt |-> rtask], x)
    \/ \E t \in RTasks : GateResume(t)
    \/ OnHelloEvent
    \/ OnSnapshotEvent
    \/ OnJoinEvent
    \/ OnPartEvent
    \/ OnNetworkEvent
    \/ OnNickEvent
    \/ RunStart /\ UnderRoom
    \/ Settled /\ \E p \in {Packet(i, "reply") : i \in Ids} \cup ListingFrames(run.w) :
          RunReceiveNow(p) /\ Dispatch(p) /\ RoomStep([r |-> Fields, rt |-> rtask], "error")

ListingSpec == DisposeInit /\ [][ListingNext]_vars

\* ------------------------------------------------------------- forced reconnects

\* Room._on_disconnect_event, lines 247-253, up to the first await of reconnect().
OnDisconnectEvent ==
    /\ hq # <<>> /\ Head(hq).cb = "_on_disconnect_event"
    /\ hq' = Tail(hq)
    /\ IF Head(hq).p.data = "authentication changed"
       THEN \E t \in RTasks, c \in Callers :
               /\ FreeTask(t)
               /\ CallReconnect(c)
               /\ RoomStep([r |-> Fields,
                            rt |-> [rtask EXCEPT ![t] = Awaiting("reauth", c)]], "error")
       ELSE /\ RoomOnly
            /\ RoomStep([r |-> [Fields EXCEPT
                                  !.fired = <<RoomEvent("disconnect", Head(hq).p.data)>>],
                         rt |-> rtask], "error")

\* Room._on_login_event, lines 264-277, and Room._on_logout_event, lines 279-288,
\* up to the first await of reconnect().
OnLoginEvent ==
    /\ hq # <<>> /\ Head(hq).cb \in {"_on_login_event", "_on_logout_event"}
    /\ hq' = Tail(hq)
    /\ \E t \in RTasks, c \in Callers :
          /\ FreeTask(t)
          /\ CallReconnect(c)
          /\ RoomStep([r |-> [Fields EXCEPT !.fired = <<RoomEvent(
                                IF Head(hq).cb = "_on_login_event" THEN "login" ELSE "logout", "")>>],
                       rt |-> [rtask EXCEPT ![t] = Awaiting("relogin", c)]], "error")

\* A Room and its Connection when Events.fire runs and the server sends
\* disconnect-events, login-events and logout-events; the transport closes when
\* close() is called on it.
ReauthNext ==
    \/ \E t \in RTasks, c \in Callers : RoomConnect(t, c)
    \/ Settled /\ \E c \in Callers, ok \in BOOLEAN : ConnectOpen(c, ok) /\ UnderRoom
    \/ Settled /\ \E c \in Callers : ReconnectClosed(c) /\ UnderRoom
    \/ \E c \in Callers, x \in Replies :
          SendResume(c) /\ Dispatch(NoPacket) /\ RoomStep([r |-> Fields, rt |-> rtask], x)
    \/ \E t \in RTasks : GateResume(t)
    \/ OnReconnecting
    \/ OnHelloEvent
    \/ OnSnapshotEvent
    \/ OnDisconnectEvent
    \/ OnLoginEvent
    \/ RunStart /\ UnderRoom
    \/ Settled /\ \E p \in {Packet(i, "reply") : i \in Ids}
                           \cup {RoomPacket("hello-event", "", run.w),
                                 RoomPacket("snapshot-event", "none", run.w),
                                 RoomPacket("disconnect-event", "authentication changed", run.w),
                                 RoomPacket("disconnect-event", "kicked", run.w),
                                 RoomPacket("login-event", "", run.w),
                                 RoomPacket("logout-event", "", run.w)} :
          RunReceiveNow(p) /\ Dispatch(p) /\ RoomStep([r |-> Fields, rt |-> rtask], "error")
    \/ Settled /\ RunClosed /\ UnderRoom
    \/ Settled /\ RunReconnectClosed /\ UnderRoom
    \/ Settled /\ \E ok \in BOOLEAN : RunReconnectOpened(ok) /\ UnderRoom
    \/ Settled /\ RunWake /\ UnderRoom
    \/ \E w \in WsIds : closeReq[w] /\ TransportCloses(w) /\ UnderRoom

ReauthSpec == DisposeInit /\ [][ReauthNext]_vars

\* ------------------------------------------------------------- the Client

\* Client.join, lines 78-100, up to the first await of connect() of the Room it
\* has made. The model has one Room, so join is called once.
ClientJoin(t, c) ==
    /\ client.join = "none"
    /\ FreeTask(t)
    /\ CallConnect(c)
    /\ Dispatch(NoPacket)
    /\ RoomStep([r |-> [Fields EXCEPT !.client.join = "connecting"],
                 rt |-> [rtask EXCEPT ![t] = Awaiting("connect", c)]], "error")

\* Client.run, lines 24-26, and its return when _stop is set.
ClientRun ==
    /\ \/ client.run = "none"
       \/ client.run = "waiting" /\ client.stop
    /\ RoomOnly
    /\ UNCHANGED hq
    /\ RoomStep([r |-> [Fields EXCEPT !.client.run = IF client.stop THEN "returned"
                                                                   ELSE "waiting"],
                 rt |-> rtask], "error")

\* Client.stop, lines 28-38, up to the await of the first task, or to its end
\* when no room is tracked.
ClientStop ==
    /\ client.stopping = "none"
    /\ RoomOnly
    /\ UNCHANGED hq
    /\ RoomStep([r |-> [Fields EXCEPT !.client =
                          IF client.rooms
                          THEN [@ EXCEPT !.stopping = "awaiting", !.part = "created"]
                          ELSE [@ EXCEPT !.stopping = "done", !.stop = TRUE]],
                 rt |-> rtask], "error")

\* Client.part, lines 110-117, in the task stop() made for it, up to the first
\* await of disconnect() of the Room (room.py, lines 241-242).
ClientPart(t, c) ==
    /\ client.part = "created"
    /\ FreeTask(t)
    /\ CallDisconnect(c)
    /\ Dispatch(NoPacket)
    /\ RoomStep([r |-> [SetConnectedReset(Fields) EXCEPT !.client.rooms = FALSE,
                                                         !.client.part = "running"],
                 rt |-> [rtask EXCEPT ![t] = Awaiting("disconnect", c)]], "error")

\* Client.stop, lines 35-38: resumed when the task of part has ended.
StopResume ==
    /\ client.stopping = "awaiting"
    /\ client.part \in {"returned", "raised"}
    /\ RoomOnly
    /\ UNCHANGED hq
    /\ RoomStep([r |-> [Fields EXCEPT !.client =
                          IF client.part = "returned"
                          THEN [@ EXCEPT !.stopping = "done", !.stop = TRUE]
                          ELSE [@ EXCEPT !.stopping = "raised"]],
                 rt |-> rtask], "error")

\* A Client with one room when Events.fire runs: the application calls run(),
\* join() and stop(); the transport closes only when close() is called on it.
ClientNext ==
    \/ \E t \in RTasks, c \in Callers : ClientJoin(t, c)
    \/ ClientRun
    \/ ClientStop
    \/ \E t \in RTasks, c \in Callers : ClientPart(t, c)
    \/ StopResume
    \/ Settled /\ \E c \in Callers, ok \in BOOLEAN : ConnectOpen(c, ok) /\ UnderRoom
    \/ Settled /\ \E c \in Callers : DisconnectClosed(c) /\ UnderRoom
    \/ \E c \in Callers : DisconnectJoin(c) /\ UnderRoom
    \/ \E c \in Callers, x \in Replies :
          SendResume(c) /\ Dispatch(NoPacket) /\ RoomStep([r |-> Fields, rt |-> rtask], x)
    \/ \E t \in RTasks : GateResume(t)
    \/ OnHelloEvent
    \/ OnSnapshotEvent
    \/ OnBounceEvent
    \/ RunStart /\ UnderRoom
    \/ Settled /\ \E p \in {Packet(i, "reply") : i \in Ids} \cup RoomFrames(run.w) :
          RunReceiveNow(p) /\ Dispatch(p) /\ RoomStep([r |-> Fields, rt |-> rtask], "error")
    \/ Settled /\ RunClosed /\ UnderRoom
    \/ \E w \in WsIds : closeReq[w] /\ TransportCloses(w) /\ UnderRoom

ClientSpec == DisposeInit /\ [][ClientNext]_vars

\* ------------------------------------------------------------- claims

\* Caller c calls the coroutine op in this step.
Calls(c, op) ==
    /\ ncalls' = ncalls + 1
    /\ call[c].pc = "done"
    /\ \A x \in Callers : x < c => call[x].pc # "done"
    /\ call'[c].op = op

\* Caller c's call of the coroutine op ends in this step (it returns or raises).
Ends(c, op) ==
    /\ call'[c].op = op
    /\ call'[c].pc = "done"
    /\ call[c].pc # "done" \/ Calls(c, op)

\* C1: a pending-reply future is completed at most once: no set_result or
\* set_exception is ever called on a future that is already done.
C1_CompletedAtMostOnce == \A i \in Ids : ~dbl[i]

\* C2: when the disconnect() call that tears the connection down ends, the
\* pending-reply table is absent and no future is left pending.
C2_NoPendingAfterDisconnect ==
    [][\A c \in Callers :
          (Ends(c, "disconnect") /\ call[c].pc \in {"disc_close", "disc_join"})
              => /\ awaiting_replies' = NoTable
                 /\ \A i \in Ids : fut'[i] # "pending"]_vars

\* C6: connect() called from NOT_RUNNING returns true, with the state RUNNING and
\* the background task started on the new transport, exactly when the transport was
\* opened; otherwise it returns false and the state is NOT_RUNNING with no
\* transport, pending-reply table, watchdog or background task.
C6_ConnectResult ==
    [][\A c \in Callers :
          (call[c].pc = "connect_open" /\ call'[c].pc = "done")
              => /\ call'[c].res \in {"true", "false"}
                 /\ call'[c].res = "true" <=> nextWs' = nextWs + 1
                 /\ call'[c].res = "true" =>
                        /\ state' = RUNNING
                        /\ ws' = nextWs' /\ wsOpen'[ws']
                        /\ awaiting_replies' = {}
                        /\ ping_check' = "armed"
                        /\ event_loop' /\ run'.pc = "start"
                 /\ call'[c].res = "false" =>
                        /\ state' = NOT_RUNNING
                        /\ ws' = None
                        /\ awaiting_replies' = NoTable
                        /\ ping_check' = "none"
                        /\ ~event_loop' /\ run'.pc \in {"none", "done"}]_vars

\* C9: the background task never ends with an exception.
C9_RunNeverRaises == run.pc # "failed"

\* C10: `reconnected` is fired only by a reconnect attempt that opened a transport.
C10_ReconnectedOnlyOnSuccess == fired = <<"reconnected">> => ws # None

\* C4: a disconnect() call returns; it does not end with the IncorrectStateException
\* of the background task, also when it is made while the background loop sleeps
\* between two failed reconnect attempts.
C4_DisconnectReturns ==
    \A c \in Callers :
        (call[c].op = "disconnect" /\ call[c].pc = "done") => call[c].res # "IncorrectState"

\* C5: of two disconnect() calls, the second made while the first is settling or
\* after it has completed, both return without raising, and between them close()
\* is called at most once on the transport.
C5_DisconnectTwice ==
    /\ \A c, d \in Callers :
          (/\ c # d
           /\ call[c].op = "disconnect" /\ call[c].pc = "done"
           /\ call[d].op = "disconnect" /\ call[d].pc \in {"dwait", "dwoken", "done"})
              => call[c].res = "returned"
    /\ \A w \in WsIds : discCloses[w] <= 1

\* C7: connect() called in a state other than NOT_RUNNING raises
\* IncorrectStateException, with a message of its own for CONNECTING, and changes
\* neither the state nor the transport, the table, the watchdog or the task.
C7_ConnectRejected ==
    [][\A c \in Callers :
          (Calls(c, "connect") /\ state # NOT_RUNNING)
              => /\ call'[c].pc = "done"
                 /\ call'[c].res = IF state = CONNECTING THEN "IncorrectStateConnecting"
                                                         ELSE "IncorrectState"
                 /\ UNCHANGED <<state, ws, awaiting_replies, ping_check, event_loop, run>>]_vars

C7_Witness ==
    \E c, d \in Callers :
        /\ call[c].op = "connect" /\ call[c].pc = "connect_open"
        /\ call[d].op = "connect" /\ call[d].res = "IncorrectStateConnecting"

\* C8: send() called while CONNECTING or RECONNECTING blocks until the attempt
\* settles; it takes a packet id only when the state it then observes is RUNNING,
\* and on NOT_RUNNING or DISCONNECTING it raises IncorrectStateException without
\* taking an id, registering a future or transmitting.
C8_SendWaitsThenChecksState ==
    [][\A c \in Callers :
          /\ (Calls(c, "send") \/ (call[c].op = "send" /\ call[c].pc = "cwoken"
                                   /\ call'[c] # call[c]))
                => /\ state \in {CONNECTING, RECONNECTING}
                        => /\ call'[c].pc = "cwait"
                           /\ UNCHANGED <<packet_id, fut, awaiting_replies, wire>>
                   /\ state \in {NOT_RUNNING, DISCONNECTING}
                        => /\ call'[c].pc = "done"
                           /\ call'[c].res = "IncorrectState"
                           /\ UNCHANGED <<packet_id, fut, awaiting_replies, wire>>
          /\ (call[c].pc = "cwait" /\ call'[c].pc # "cwait")
                => /\ call'[c].pc = "cwoken"
                   /\ state \in {CONNECTING, RECONNECTING}
                   /\ state' \notin {CONNECTING, RECONNECTING}
          /\ packet_id' # packet_id => state = RUNNING /\ state' = RUNNING]_vars

C8_Witness ==
    \E c \in Callers :
        /\ call[c].op = "send" /\ call[c].pc = "cwoken" /\ state = DISCONNECTING

\* C3: a send() that awaits its reply when the transport closes eventually
\* fails with ConnectionClosedException.
C3_AwaitingSendFails ==
    \A c \in Callers :
        (call[c].pc = "send_wait" /\ fut[call[c].arg] = "pending" /\ wire[call[c].arg] = None)
            ~> (call[c].pc = "done" /\ call[c].op = "send" /\ call[c].res = "ConnectionClosed")

\* C11: reconnect() raises IncorrectStateException exactly when the state is
\* NOT_RUNNING or DISCONNECTING and then changes nothing; called while CONNECTING
\* or RECONNECTING it only waits on the connected condition and returns when woken;
\* called while RUNNING it calls close() on the current transport, it ends by
\* returning, and the background loop eventually fires `reconnecting` and starts
\* to open a new transport (unless disconnect() stops the Connection first).
C11_Reconnect ==
    /\ [][\A c \in Callers :
            /\ Calls(c, "reconnect") =>
                  /\ state \in {NOT_RUNNING, DISCONNECTING} =>
                        /\ call'[c].pc = "done" /\ call'[c].res = "IncorrectState"
                        /\ UNCHANGED <<state, conn, closeReq, run>>
                  /\ state \in {CONNECTING, RECONNECTING} =>
                        /\ call'[c].pc = "cwait"
                        /\ UNCHANGED <<state, conn, closeReq, run>>
                  /\ (state = RUNNING /\ run.pc = "recv" /\ wsOpen[run.w]) =>
                        /\ call'[c].pc = "rec_close"
                        /\ closeReq'[run.w]
            /\ Ends(c, "reconnect") =>
                  /\ call'[c].res \in {"returned", "IncorrectState"}
                  /\ call'[c].res = "IncorrectState" =>
                        (Calls(c, "reconnect") /\ state \in {NOT_RUNNING, DISCONNECTING})]_vars
    /\ \A c \in Callers :
          (call[c].op = "reconnect" /\ call[c].pc = "rec_close" /\ wsOpen[call[c].arg])
              ~> (run.pc = "recon_connect" \/ state \in {DISCONNECTING, NOT_RUNNING})

\* C12: the loop processes the frames in the order the transport received them:
\* the frame it takes is the oldest of the queue and its type is the event fired;
\* and when the frame carries the id of a pending request, the future of that
\* request is resolved by the time the event is fired.
C12_InOrderResolvedFirst ==
    [][Len(inbox') < Len(inbox) =>
          LET p == Head(inbox) IN
          /\ inbox' = Tail(inbox)
          /\ run'.pc # "failed" => fired' = <<p.type>>
          /\ (p.id \in Ids /\ fut[p.id] = "pending" /\ fired' = <<p.type>>)
                => fut'[p.id] = "result"]_vars

C12_Witness ==
    /\ fired = <<"reply">>
    /\ inbox = <<Packet(-1, "ping-event")>>
    /\ \E c \in Callers : call[c].pc = "send_wait" /\ fut[call[c].arg] = "result"

\* C13: when an event is fired, one task is made for each callback registered for
\* it (here the Connection's own callback for ping-event), which runs the callback
\* once, and the firer goes on without waiting for it.
C13_CallbacksInvoked ==
    [][\A e \in {"ping-event", "reply", "connected", "reconnecting", "reconnected",
                 "disconnecting"} :
          fired' = <<e>> =>
              /\ Len(hq') = Len(hq) + Len(ConnectionCallbacks(e))
              /\ \A k \in 1..Len(ConnectionCallbacks(e)) :
                    hq'[Len(hq) + k].cb = ConnectionCallbacks(e)[k]]_vars

\* The calls of send() that have their packet id and await the reply.
HasId(c) == call[c].op = "send" /\ call[c].pc = "send_wait"

\* C14 as claimed: the ids follow the call order: of two calls of send(), the one
\* made first gets the smaller id, so the later call never has an id while the
\* earlier one has none.
C14_IdsInCallOrder ==
    \A c, d \in Callers :
        (call[c].op = "send" /\ call[c].pc \in {"cwait", "cwoken"} /\ HasId(d))
            => seq[d] < seq[c]

\* C14 as amended: the ids are handed out in the order in which the calls take
\* them, after their wait for a connection attempt to settle: every id is the
\* counter's value, the counter then grows by one and never goes back, also over
\* reconnects and disconnect()/connect() cycles, so no id is given twice.
C14_IdsIncreaseNeverReused ==
    [][/\ packet_id' \in {packet_id, packet_id + 1}
       /\ \A c \in Callers :
             (HasId(c)' /\ ~HasId(c)) =>
                 /\ call'[c].arg = packet_id
                 /\ packet_id' = packet_id + 1
                 /\ fut[packet_id] = "none"
                 /\ \A d \in Callers : HasId(d) => call[d].arg < packet_id
       /\ \A i \in Ids : (wire'[i] # None /\ wire[i] = None) => (i = packet_id /\ packet_id' = i + 1)]_vars

C14_Witness ==
    /\ nextWs = 2
    /\ \E c, d \in Callers :
          /\ HasId(c) /\ HasId(d) /\ call[c].arg = 0 /\ call[d].arg = 1
          /\ wire[0] = None /\ wire[1] = 2

\* C15: whenever the state is NOT_RUNNING there is no transport handle: _ws, the
\* table of pending replies, the watchdog task and the receive task are absent.
C15_NotRunningHasNoTransport ==
    state = NOT_RUNNING =>
        /\ ws = None
        /\ awaiting_replies = NoTable
        /\ ping_check = "none"
        /\ ~event_loop
        /\ run.pc \in {"none", "done"}

\* C16: once disconnect() has fired `disconnecting`, that is while the state is
\* DISCONNECTING and then NOT_RUNNING, no event is fired until connect() is called.
C16_DisconnectingIsLastEvent ==
    [][(state \in {DISCONNECTING, NOT_RUNNING}) => (fired' = <<>>)]_vars

\* The gate is set with the successful result in this step.
SetSuccessfully ==
    /\ connected' /\ connected_successfully'
    /\ ~(connected /\ connected_successfully)

Handles(cb) == hq # <<>> /\ Head(hq).cb = cb /\ hq' = Tail(hq)

\* The frame handled in this step was read from the transport the loop reads now.
Fresh == hq # <<>> /\ run.pc = "recv" /\ Head(hq).p.w = run.w

\* Once _on_reconnecting has run, the flags are false and the gate is clear while
\* the Connection is RECONNECTING.
ResetWhileReconnecting ==
    (state = RECONNECTING /\ hq = <<>>)
        => (~hello_received /\ ~snapshot_received /\ ~connected)

\* _on_reconnecting resets the flags and clears the gate, and a flag becomes true
\* again only when a hello-event, or a snapshot-event, of the transport in use is
\* handled.
FlagsNeedFreshEvents ==
    /\ Handles("_on_reconnecting") => (~hello_received' /\ ~snapshot_received' /\ ~connected')
    /\ (hello_received' /\ ~hello_received) => (Handles("_on_hello_event") /\ Fresh)
    /\ (snapshot_received' /\ ~snapshot_received) => (Handles("_on_snapshot_event") /\ Fresh)

\* The gate is set in this step, after the Connection has reconnected or begun to.
SetAfterReconnecting == connected' /\ ~connected /\ nextWs > 1

\* The gate is set with the unsuccessful result by the callback of a bounce-event
\* of the transport in use, or when the reply to its auth command is there.
SetFailedByBounce ==
    /\ ~connected_successfully'
    /\ \/ Handles("_on_bounce_event") /\ Fresh
       \/ \E t \in RTasks : rtask[t].kind = "auth" /\ rtask[t].pc = "call" /\ rtask'[t].pc = "done"

\* C18 as claimed: after every `reconnecting` event the flags are false and the
\* gate is clear, and they stay so until a fresh hello-event and snapshot-event of
\* the new connection are handled: the gate is set only when both flags are true.
C18_ResetUntilFreshEvents ==
    /\ []ResetWhileReconnecting
    /\ [][FlagsNeedFreshEvents]_vars
    /\ [][SetAfterReconnecting => (hello_received' /\ snapshot_received')]_vars

\* C18 as amended: the same, except that the gate is also set, with the
\* unsuccessful result, when a bounce-event of the new connection ends the attempt.
C18_ResetUntilFreshEventsOrBounce ==
    /\ []ResetWhileReconnecting
    /\ [][FlagsNeedFreshEvents]_vars
    /\ [][SetAfterReconnecting =>
            \/ hello_received' /\ snapshot_received' /\ connected_successfully'
            \/ SetFailedByBounce]_vars

C18_Witness ==
    /\ hello_received /\ snapshot_received /\ connected /\ connected_successfully
    /\ run.pc = "recv" /\ run.w = 2
    /\ \E c \in Callers : call[c].op = "reconnect" /\ call[c].res = "returned"

\* The callback of a bounce-event starts in this step and finds that it cannot
\* authenticate, respectively that it can.
BounceWithoutAuth ==
    Handles("_on_bounce_event") /\ (~Head(hq).p.data \/ password = "none")
BounceWithAuth ==
    Handles("_on_bounce_event") /\ Head(hq).p.data /\ password # "none"

\* The connect attempt fails in this step: the gate is set with the unsuccessful
\* result and every connect() waiting for the gate is woken (nothing changes when
\* the Room is connected already).
AttemptFails ==
    /\ connected'
    /\ ~connected =>
          /\ ~connected_successfully'
          /\ \A t \in RTasks : rtask[t].pc = "gate" => rtask'[t].pc = "gate_woken"

\* The reply to the auth command is there in this step, and says x.
AuthReply(x) ==
    \E t \in RTasks :
        /\ rtask[t].kind = "auth" /\ rtask[t].pc = "call"
        /\ rtask'[t].pc = "done" /\ rtask'[t].res = x

\* A connect() woken at the gate while the result is unsuccessful stays so until
\* it runs, and then returns false.
WokenReturnsFalse ==
    \A t \in RTasks :
        (rtask[t].pc = "gate_woken" /\ ~connected_successfully) =>
            \/ rtask'[t].pc = "gate_woken" /\ ~connected_successfully'
            \/ rtask'[t].pc = "done" /\ rtask'[t].res = "false"

\* C19: the Room's callback is started for every bounce-event. If passcode is not
\* offered or there is no password, it sends no command and the attempt fails:
\* connect() returns false. With a password it sends exactly one auth command,
\* and the attempt fails when the reply says the passcode was wrong.
C19_Bounce ==
    /\ [](fired = <<"bounce-event">> =>
            (hq # <<>> /\ hq[Len(hq)].cb = "_on_bounce_event"))
    /\ [][/\ BounceWithoutAuth =>
                (ncalls' = ncalls /\ packet_id' = packet_id /\ wire' = wire /\ AttemptFails)
          /\ BounceWithAuth =>
                /\ ncalls' = ncalls + 1
                /\ \E c \in Callers : Calls(c, "send")
                /\ packet_id' \in {packet_id, packet_id + 1}
                /\ UNCHANGED <<connected, connected_successfully>>
          /\ AuthReply("failure") => AttemptFails
          /\ AuthReply("success") => UNCHANGED <<connected, connected_successfully>>
          /\ WokenReturnsFalse]_vars

\* connect() of the Room returns false in this step after the gate was set with
\* the unsuccessful result.
ReturnsFalseAtGate ==
    \E t \in RTasks :
        rtask[t].pc = "gate_woken" /\ rtask'[t].pc = "done" /\ rtask'[t].res = "false"

\* A connect() of the Room has returned false and none has been called since.
ConnectHasFailed ==
    /\ \E t \in RTasks : rtask[t].kind = "connect" /\ rtask[t].pc = "done" /\ rtask[t].res = "false"
    /\ \A t \in RTasks : rtask[t].kind = "connect" => rtask[t].pc = "done"

\* C20: when connect() of the Room returns false because the authentication
\* failed, the Connection is not left running or reconnecting, and no auth command
\* is sent afterwards unless connect() is called again.
C20_FailedConnectLeavesDisconnected ==
    /\ [][ReturnsFalseAtGate => state' \in {NOT_RUNNING, DISCONNECTING}]_vars
    /\ [][ConnectHasFailed => ~BounceWithAuth]_vars

\* C21: each command of the Room (send, nick, log, get, who, pm) first waits
\* until the connected-gate is set; if the gate was set with the unsuccessful
\* result it fails with RoomNotConnectedException and sends no packet; otherwise
\* it makes exactly one call of Connection.send.
C21_CommandsWaitForGate ==
    [][\A t \in RTasks :
          LET Begins == /\ rtask[t].pc = "done" /\ rtask'[t] # rtask[t]
                        /\ \/ rtask'[t].kind \in Commands
                           \/ rtask'[t].kind = "none" /\ rtask'[t].res # "none"
              Woken  == rtask[t].pc = "gate_woken" /\ rtask[t].kind \in Commands
                            /\ rtask'[t] # rtask[t]
              NoSend == ncalls' = ncalls /\ packet_id' = packet_id /\ wire' = wire
              OneSend == /\ ncalls' = ncalls + 1
                         /\ \E c \in Callers :
                               /\ Calls(c, "send")
                               /\ rtask'[t].pc # "done" => rtask'[t] = Awaiting(rtask'[t].kind, c)
          IN
          /\ (Begins /\ ~connected) => (rtask'[t].pc = "gate" /\ NoSend)
          /\ ((Begins /\ connected) \/ Woken) =>
                IF connected_successfully THEN OneSend
                ELSE rtask'[t].pc = "done" /\ rtask'[t].res = "RoomNotConnected" /\ NoSend
          /\ (rtask[t].kind \in Commands /\ rtask[t].pc = "gate" /\ rtask'[t] # rtask[t])
                => (rtask'[t] = [rtask[t] EXCEPT !.pc = "gate_woken"] /\ connected' /\ ~connected)
          /\ (rtask[t].kind \in Commands /\ rtask[t].pc = "call" /\ rtask'[t] # rtask[t])
                => (rtask'[t].pc = "done" /\ NoSend)]_vars

\* C22: Room.disconnect() releases the waiters: every task that is blocked in
\* connect() of the Room or in a command, at the gate or on a reply, while
\* disconnect() is under way eventually returns or fails.
C22_DisconnectReleasesWaiters ==
    \A t \in RTasks :
        (/\ rtask[t].kind \in {"connect"} \cup Commands
         /\ rtask[t].pc \in {"gate", "call"}
         /\ \E u \in RTasks : rtask[u].kind = "disconnect" /\ rtask[u].pc = "call")
            ~> (rtask[t].pc = "done")

\* C23: when the reply to a command of the Room carries an error field, the call
\* fails with EuphError: it returns no data, no field of the Room is set from the
\* reply, and the receive loop runs on.
C23_ErrorReplyRaises ==
    [][\A c \in Callers, t \in RTasks :
          (/\ rtask[t].kind \in Commands /\ rtask[t].pc = "call" /\ rtask[t].c = c
           /\ SendResume(c) /\ call'[c].res = "reply"
           /\ RoomStep([r |-> Fields, rt |-> rtask], "error"))
              => /\ rtask'[t].pc = "done" /\ rtask'[t].res = "EuphError"
                 /\ UNCHANGED <<target_nick, session_nick, run>>
                 /\ run.pc # "failed"]_vars

C23_Witness ==
    /\ \E t \in RTasks : rtask[t].kind = "none" /\ rtask[t].res = "EuphError"
    /\ \E c \in Callers : call[c].op = "send" /\ call[c].pc = "done" /\ call[c].res = "reply"
    /\ run.pc = "recv" /\ wsOpen[run.w]

\* C24 as claimed: the target nick and the nick of the session are set by nick()
\* only from the reply of the server: the target nick changes only in the step
\* that takes the reply to a nick command, and then to the nick of the reply.
C24_NickOnlyFromReply ==
    [][target_nick' # target_nick =>
          \E t \in RTasks :
              /\ rtask[t].kind \in {"nick", "nick_cmd"} /\ rtask[t].pc = "call"
              /\ rtask'[t].pc = "done" /\ call'[rtask[t].c].res = "reply"
              /\ rtask[t].kind = "nick_cmd" => rtask'[t].res = target_nick']_vars

\* C24 as amended: the nick of the session is set by nick() only from the reply,
\* and when nick() succeeds the target nick and the nick of the session are the
\* nick of the reply. The target nick is also set, to the nick asked for, when
\* nick() sends its command, and a nick() that fails leaves it so.
C24_NickFromReplyTargetFromRequest ==
    [][/\ target_nick' # target_nick =>
            \/ \E t \in RTasks :
                  /\ rtask[t].kind \in {"nick", "nick_cmd"} /\ rtask[t].pc = "call"
                  /\ rtask'[t].pc = "done" /\ call'[rtask[t].c].res = "reply"
                  /\ rtask[t].kind = "nick_cmd" => rtask'[t].res = target_nick'
            \/ (\E c \in Callers : Calls(c, "send")) /\ target_nick' = Requested
       /\ session_nick' # session_nick =>
            \/ \E t \in RTasks :
                  /\ rtask[t].kind \in {"nick", "nick_cmd"} /\ rtask[t].pc = "call"
                  /\ rtask'[t].pc = "done" /\ call'[rtask[t].c].res = "reply"
                  /\ session_nick' = target_nick'
            \/ Handles("_on_hello_event") \/ Handles("_on_snapshot_event")
       /\ \A t \in RTasks :
            (rtask[t].kind = "nick_cmd" /\ rtask[t].pc = "call" /\ rtask'[t].pc = "done") =>
                IF rtask'[t].res \in Nicks
                THEN /\ target_nick' = rtask'[t].res
                     /\ session_nick # "none" => session_nick' = rtask'[t].res
                ELSE UNCHANGED <<target_nick, session_nick>>
       /\ \A t \in RTasks :
            (rtask'[t].kind = "nick_cmd" /\ rtask'[t].pc = "call" /\ rtask[t].pc # "call") =>
                target_nick' = Requested]_vars

C24_Witness ==
    /\ connected /\ connected_successfully
    /\ target_nick = Requested /\ session_nick = "a"
    /\ \A t \in RTasks : rtask[t].pc = "done"
    /\ \E t \in RTasks : rtask[t].kind = "none" /\ rtask[t].res = "EuphError"

C26_ListingReplaysEvents ==
    [][LET starts == hq # <<>> /\ hq' = Tail(hq)
           cb == Head(hq).cb
           d  == Head(hq).p.data
           who == \E t \in RTasks : rtask[t].kind \in {"who_cmd", "resync"}
                                     /\ rtask[t].pc = "call" /\ rtask'[t].pc = "done"
       IN
       /\ (starts /\ users # NoUsers) =>
             CASE cb = "_on_join_event" ->
                     /\ users' = [i \in DOMAIN users |->
                                    IF i = d.session_id
                                    THEN [nick |-> d.nick, server_id |-> d.server_id,
                                          server_era |-> d.server_era]
                                    ELSE users[i]]
                     /\ Cardinality({i \in DOMAIN users' : users'[i] # Absent})
                          = Cardinality({i \in DOMAIN users : users[i] # Absent}
                                            \cup {d.session_id})
               [] cb = "_on_part_event" ->
                     users' = [i \in DOMAIN users |->
                                  IF i = d.session_id THEN Absent ELSE users[i]]
               [] cb = "_on_network_event" /\ d.type = "partition" ->
                     users' = [i \in DOMAIN users |->
                                  IF users[i].server_id = d.server_id
                                     /\ users[i].server_era = d.server_era
                                  THEN Absent ELSE users[i]]
               [] cb = "_on_nick_event" /\ users[d.session_id] # Absent ->
                     users' = [i \in DOMAIN users |->
                                  IF i = d.session_id
                                  THEN [nick |-> d.to, server_id |-> users[i].server_id,
                                        server_era |-> users[i].server_era]
                                  ELSE users[i]]
               [] cb = "_on_snapshot_event" -> users' = Head(hq).p.listing
               [] OTHER -> users' = users
       /\ users' # users => (starts \/ who)]_vars

\* A part-event for s1 has just been handled and s2, renamed by a nick-event, is
\* what the listing holds.
C26_Witness ==
    /\ rfired = <<RoomEvent("part", "s1")>>
    /\ users # NoUsers
    /\ users["s1"] = Absent
    /\ users["s2"] = [nick |-> "b", server_id |-> 2, server_era |-> 1]

\* C27: the task of _on_network_event that starts on a network-event of type
\* partition removes from the listing exactly the sessions whose server_id and
\* server_era both equal those of the event, leaves every other session as it
\* is and passes one part event to fire for every session it removed; on a
\* network-event of another type it changes nothing and fires nothing.
C27_PartitionRemovesMatches ==
    [][(hq # <<>> /\ hq' = Tail(hq) /\ Head(hq).cb = "_on_network_event") =>
          LET d == Head(hq).p.data
              matches == IF users = NoUsers THEN {}
                         ELSE {i \in DOMAIN users : /\ users[i] # Absent
                                                    /\ users[i].server_id = d.server_id
                                                    /\ users[i].server_era = d.server_era}
          IN
          IF d.type = "partition"
          THEN /\ users # NoUsers =>
                     /\ users' # NoUsers
                     /\ \A i \in DOMAIN users :
                           users'[i] = IF i \in matches THEN Absent ELSE users[i]
               /\ Len(rfired') = Cardinality(matches)
               /\ \A i \in matches :
                     Cardinality({k \in 1..Len(rfired') : rfired'[k] = RoomEvent("part", i)}) = 1
               /\ UNCHANGED <<hello_received, snapshot_received, connected,
                              connected_successfully, target_nick, session_nick, rtask>>
          ELSE /\ rfired' = <<>>
               /\ UNCHANGED <<hello_received, snapshot_received, connected,
                              connected_successfully, target_nick, session_nick, users, rtask,
                              state, conn, call, wire>>]_vars

\* A partition has just removed both sessions of the listing.
C27_Witness ==
    /\ rfired = <<RoomEvent("part", "s1"), RoomEvent("part", "s2")>>
    /\ users = EmptyListing

\* C28: the task of _on_nick_event that starts on a nick-event for a listed
\* session renames that session only and passes a nick event to fire; on a
\* nick-event for a session that is not listed it issues a who command (at once,
\* or when the gate opens), and when that task ends the listing is the one of the
\* who reply, without the Room's own session, and a nick event has been passed
\* to fire.
C28_NickEventRenamesOrResyncs ==
    [][/\ (hq # <<>> /\ hq' = Tail(hq) /\ Head(hq).cb = "_on_nick_event" /\ users # NoUsers) =>
            LET d == Head(hq).p.data IN
            IF users[d.session_id] # Absent
            THEN /\ users' = [users EXCEPT ![d.session_id].nick = d.to]
                 /\ rfired' = <<RoomEvent("nick", d.session_id)>>
            ELSE /\ users' = users
                 /\ \E t \in RTasks :
                       /\ rtask[t].pc = "done"
                       /\ rtask'[t].kind = "resync"
                       /\ \/ rtask'[t].pc = "gate" /\ ~connected
                          \/ rtask'[t].pc = "call" /\ call'[rtask'[t].c].op = "send"
                                                   /\ ncalls' = ncalls + 1
       /\ \A t \in RTasks :
            (rtask[t].kind = "resync" /\ rtask[t].pc = "gate_woken" /\ rtask'[t] # rtask[t]) =>
                (rtask'[t].pc = "call" /\ ncalls' = ncalls + 1)
       /\ \A t \in RTasks, x \in {"listing", "others"} :
            (rtask[t].kind = "resync" /\ rtask[t].pc = "call" /\ rtask'[t].pc = "done") =>
                /\ \E k \in 1..Len(rfired') : rfired'[k].event = "nick"
                /\ (SendResume(rtask[t].c) /\ RoomStep([r |-> Fields, rt |-> rtask], x)) =>
                       users' = [ListingOf(x) EXCEPT ![OwnId] = Absent]]_vars

\* C29: the task of the callback that starts on a login-event, on a logout-event
\* or on a disconnect-event with the reason "authentication changed" calls
\* reconnect() of the Connection; the task that starts on a disconnect-event
\* with another reason calls nothing and passes disconnect(reason) to fire; the
\* task of _on_disconnect_event that called reconnect() passes
\* disconnect("authentication changed") to fire when it ends; and none of these
\* tasks changes the listing.
C29_ReauthEventsForceReconnect ==
    [][/\ (hq # <<>> /\ hq' = Tail(hq)
             /\ Head(hq).cb \in {"_on_login_event", "_on_logout_event", "_on_disconnect_event"}) =>
            /\ users' = users
            /\ IF Head(hq).cb = "_on_disconnect_event"
                  /\ Head(hq).p.data # "authentication changed"
               THEN /\ ncalls' = ncalls
                    /\ rfired' = <<RoomEvent("disconnect", Head(hq).p.data)>>
               ELSE \E c \in Callers : Calls(c, "reconnect")
       /\ \A t \in RTasks :
            (rtask'[t].kind = "reauth" /\ rtask'[t].pc = "call") =>
                (rtask[t].pc = "done" \/ rtask'[t] = rtask[t])
       /\ \A t \in RTasks :
            (/\ \/ rtask[t].kind = "reauth" /\ rtask[t].pc = "call"
                \/ /\ hq # <<>> /\ hq' = Tail(hq) /\ Head(hq).cb = "_on_disconnect_event"
                   /\ Head(hq).p.data = "authentication changed" /\ FreeTask(t)
             /\ rtask'[t].pc = "done") =>
                /\ users' = users
                /\ rfired' = <<RoomEvent("disconnect", "authentication changed")>>]_vars

\* C30: when stop() of the Client completes no room is tracked, and the room
\* that was tracked when stop() was called has been disconnected: disconnect()
\* of the Room has returned and its Connection is not running, then and ever
\* after; run() has returned only if stop() has completed; and the room becomes
\* tracked only in the step in which connect() of the Room returns true.
C30_StopDisconnectsTrackedRooms ==
    /\ [][(client'.stopping = "done" /\ client.stopping # "done") =>
              (~client'.rooms /\ client'.stop)]_vars
    /\ []((client.stopping = "done" /\ client.part # "none") =>
              /\ client.part = "returned"
              /\ ~client.rooms
              /\ state = NOT_RUNNING /\ ws = None)
    /\ [](client.run = "returned" => client.stopping = "done")
    /\ [][(client'.rooms /\ ~client.rooms) =>
              /\ connected_successfully'
              /\ \E t \in RTasks : /\ rtask'[t] = [kind |-> "connect", pc |-> "done",
                                                     res |-> "true", c |-> 0]
                                    /\ rtask[t] # rtask'[t]]_vars

\* stop() has completed after the task of part has disconnected the room that was
\* tracked, and run() has returned.
C30_Witness ==
    /\ client.stopping = "done"
    /\ client.part = "returned"
    /\ client.join = "done"
    /\ client.run = "returned"
    /\ state = NOT_RUNNING

\* C31: in every reachable state the transport handle _ws, the table of pending
\* replies and the task of the ping watchdog are all absent or all present.
C31_TransportTableWatchdogTogether ==
    \/ ws = None /\ awaiting_replies = NoTable /\ ping_check = "none"
    \/ ws # None /\ awaiting_replies # NoTable /\ ping_check # "none"

\* C32: whenever the state is RUNNING, _ws and the table of pending replies
\* are not None, so a send() that finds RUNNING passes the test of line 528.
C32_RunningHasTransport ==
    state = RUNNING => ws # None /\ awaiting_replies # NoTable

\* C33: every change of the state follows one of the edges NOT_RUNNING ->
\* CONNECTING, CONNECTING -> RUNNING, CONNECTING -> NOT_RUNNING, RUNNING ->
\* RECONNECTING, RECONNECTING -> RUNNING, RUNNING/RECONNECTING ->
\* DISCONNECTING, DISCONNECTING -> NOT_RUNNING, and no two transitions are in
\* flight at once: of the connect() calls inside _connect(), the loop inside
\* _reconnect() and the disconnect() calls between lines 338 and 348, at most
\* one exists, and only in the state CONNECTING, RECONNECTING or DISCONNECTING
\* respectively.
C33_StateEdges ==
    /\ [][state' # state =>
            <<state, state'>> \in
                { <<NOT_RUNNING, CONNECTING>>, <<CONNECTING, RUNNING>>,
                  <<CONNECTING, NOT_RUNNING>>, <<RUNNING, RECONNECTING>>,
                  <<RECONNECTING, RUNNING>>, <<RUNNING, DISCONNECTING>>,
                  <<RECONNECTING, DISCONNECTING>>,
                  <<DISCONNECTING, NOT_RUNNING>> }]_vars
    /\ [](LET connecting == {c \in Callers : call[c].op = "connect"
                                /\ call[c].pc = "connect_open"}
              stopping == {c \in Callers : call[c].op = "disconnect"
                              /\ call[c].pc \in {"disc_close", "disc_join"}}
              looping == IF run.pc \in {"recon_close", "recon_connect"}
                         THEN {0} ELSE {}
          IN  /\ Cardinality(connecting) + Cardinality(stopping)
                  + Cardinality(looping) <= 1
              /\ connecting # {} => state = CONNECTING
              /\ looping # {} => state = RECONNECTING
              /\ stopping # {} => state = DISCONNECTING)

\* The loop is inside _reconnect() while a disconnect() and a reconnect() wait
\* for it on _connected_condition.
C33_Witness ==
    /\ state = RECONNECTING
    /\ run.pc = "recon_connect"
    /\ \E c, d \in Callers :
          /\ call[c].op = "disconnect" /\ call[c].pc = "cwait"
          /\ call[d].op = "reconnect" /\ call[d].pc = "cwait"

C35_WatchdogLeadsToReconnect ==
    (state = RUNNING /\ \E d \in DSlots : dtask[d].pc = "start")
        ~> \/ state = RECONNECTING /\ run.pc = "recon_connect"
           \/ state \in {DISCONNECTING, NOT_RUNNING}

\* C36: at most one timer of the ping watchdog is armed at any time, counting
\* the one _ping_check refers to and the ones armed earlier that nothing
\* cancelled, and none is armed once disconnect() has completed.
C36_AtMostOneTimerArmed ==
    LET armed == leaked + (IF ping_check = "armed" THEN 1 ELSE 0)
    IN  /\ armed <= 1
        /\ state = NOT_RUNNING => armed = 0

\* C37: the callback that finds hello and snapshot both received, with the gate
\* clear, calls send() for a nick command exactly when the target nick is not
\* empty and differs from the nick of the session; then it leaves the gate
\* clear, and otherwise it sets the gate in the same step. The gate is set as
\* connected only by such a callback or by the step that applies the reply to
\* the nick command.
C37_NickBeforeGate ==
    /\ [][((OnHelloEvent \/ OnSnapshotEvent)
            /\ hello_received' /\ snapshot_received' /\ ~connected)
           => IF target_nick \notin {"", session_nick'}
              THEN /\ \E c \in Callers : Calls(c, "send")
                   /\ ~connected'
              ELSE /\ \A c \in Callers : ~Calls(c, "send")
                   /\ connected' /\ connected_successfully']_vars
    /\ [][(~connected_successfully /\ connected_successfully')
           => \/ /\ OnHelloEvent \/ OnSnapshotEvent
                 /\ target_nick \in {"", session_nick'}
                 /\ UNCHANGED packet_id
              \/ \E t \in RTasks :
                    /\ rtask[t].kind = "nick" /\ rtask[t].pc = "call"
                    /\ call'[rtask[t].c].res = "reply"
                    /\ rtask'[t].pc = "done"
                    /\ target_nick' \in Nicks
                    /\ session_nick' = target_nick']_vars

\* The reply to the nick command of the handshake has been applied and the
\* gate is set.
C37_Witness ==
    /\ connected /\ connected_successfully
    /\ hello_received /\ snapshot_received
    /\ target_nick \in Nicks /\ session_nick = target_nick
    /\ packet_id > 0

\* C38: a _disconnect() that resumes from close() when _ws is no longer the
\* transport it closed leaves _ws, the table, the futures and the watchdog as
\* they are, whoever runs it: disconnect(), reconnect(), the task of the
\* watchdog or the background task.
C38_TeardownOfOwnTransportOnly ==
    [][/\ \A c \in Callers :
            (/\ call[c].pc \in {"rec_close", "disc_close"}
             /\ call'[c].pc # call[c].pc
             /\ call[c].arg # ws)
                => UNCHANGED <<ws, awaiting_replies, ping_check, fut>>
       /\ \A d \in DSlots :
            (/\ dtask[d].pc = "closing"
             /\ dtask'[d].pc # "closing"
             /\ dtask[d].w # ws)
                => UNCHANGED <<ws, awaiting_replies, ping_check, fut>>
       /\ (run.pc = "recon_close" /\ run'.pc # "recon_close" /\ run.w # ws)
                => UNCHANGED <<ws, awaiting_replies, ping_check, fut>>]_vars

\* C39: while the Connection is NOT_RUNNING, which it is once disconnect() of
\* the Room has returned, the gate is not set as connected, so no command can
\* pass it.
C39_GateClearAfterDisconnect ==
    state = NOT_RUNNING => ~(connected /\ connected_successfully)

\* C40: in one handshake a nick command is sent only by the callback that
\* completes the pair hello/snapshot, whichever of the two it is, never while
\* another nick command of the handshake is pending, and once the gate is set
\* its result is not set again before the next reset.
C40_OneNickOneGate ==
    /\ [][((OnHelloEvent \/ OnSnapshotEvent) /\ \E c \in Callers : Calls(c, "send"))
           => /\ ~(hello_received /\ snapshot_received)
              /\ hello_received' /\ snapshot_received'
              /\ \A t \in RTasks : ~(rtask[t].kind = "nick" /\ rtask[t].pc = "call")]_vars
    /\ [][(connected /\ connected')
           => connected_successfully' = connected_successfully]_vars
    /\ [](Cardinality({t \in RTasks : rtask[t].kind = "nick" /\ rtask[t].pc = "call"}) <= 1)

\* The second handshake, on the transport opened by a reconnect, has set the
\* gate after its one nick command, as the first did.
C40_Witness ==
    /\ ws = 2
    /\ connected /\ connected_successfully
    /\ packet_id = 2
    /\ target_nick \in Nicks /\ session_nick = target_nick
    /\ \A t \in RTasks : rtask[t].kind # "auth"


====
